---- MODULE Spec2Model ----
(***************************************************************************)
(* CacheBolt: the request engine (proxy_handler / try_cache), the          *)
(* in-memory LRU cache, the latency circuit, the refresh sampler, the      *)
(* admission semaphore, the persistence writer, the background eviction    *)
(* task and the admin invalidate handler, as one state machine.            *)
(*                                                                         *)
(* Strings that the code concatenates are modelled as sequences of tokens; *)
(* time is a monotonic clock in seconds that advances in coarse ticks.     *)
(***************************************************************************)
EXTENDS Integers, Sequences, FiniteSets, TLC

\* ------------------------------------------------------------------ bounds

\* Number of proxy_handler tasks that may run at the same time.
NumReqs == 2
\* Number of requests received in one run.
MaxRequests == 3
\* The clock stops advancing at MaxTime seconds.
MaxTime == 300
\* Seconds by which one Tick advances the clock.
TickSecs == 300
\* The same two for the runs of the latency circuit alone.
MaxFineTime == 700
FineTickSecs == 100
\* Capacity of the CACHE_WRITER channel in the model (mpsc::channel(100) in the code).
QueueCap == 1
\* Number of should_refresh calls per key in the runs of the sampler alone.
MaxCalls == 20
\* Number of admin invalidate calls in a run.
MaxInvalidations == 1
\* Length of the longest list of path rules.
MaxRules == 2
\* Number of records sent, and capacity of the channel, in the runs of the writer alone.
MaxSends == 4
JournalCap == 2
\* Number of inserts and reads in the runs that follow the recency of the entries.
MaxTouches == 5
\* Number of tasks that call should_refresh at the same time.
NumCallers == 3

\* ------------------------------------------------------------- constants

\* Duration::from_secs(300) of should_failover.
FAILOVER_WINDOW_SECS == 300

\* Option<T>: None is the empty sequence, Some(x) the sequence of x alone.
None == << >>
Some(x) == << x >>

Reqs == 1..NumReqs

\* ---------------------------------------------------------- configuration

\* The CONFIG of the run (config.rs, Config): read-only after start.
\* A path rule is a pattern, abstracted to whether it compiles and the set
\* of URIs it matches, and its max_latency_ms.
CONFIG ==
    [ max_concurrent_requests |-> 1,
      refresh_percentage      |-> 50,
      memory_threshold        |-> 80,
      default_max_latency_ms  |-> 50,
      path_rules              |-> << [valid |-> FALSE, matches |-> {"/a", "/b"}, max_latency_ms |-> 9999],
                                     [valid |-> TRUE,  matches |-> {"/b"},       max_latency_ms |-> 1000] >>,
      ignored_headers         |-> {"X-Trace"} ]

\* --------------------------------------------------------------- inputs

URIs == {"/a", "/b"}

\* to_ascii_lowercase on the header names and values the model uses.
to_ascii_lowercase(s) ==
    CASE s = "X-Bypass-Cache" -> "x-bypass-cache"
      [] s = "Cache-Control"  -> "cache-control"
      [] s = "Accept"         -> "accept"
      [] s = "X-Lang"         -> "x-lang"
      [] s = "X-Trace"        -> "x-trace"
      [] s = "True"           -> "true"
      [] s = "No-Cache"       -> "no-cache"
      [] OTHER                -> s

\* str::contains("no-cache") on the (lowercased) values the model uses.
contains_no_cache(v) == v \in {"no-cache", "no-cache, no-store"}

\* The requests clients send: a URI and a header list (<<name, value>> pairs).
RequestInputs ==
    { << "/a", << >> >>,
      << "/a", << <<"x-bypass-cache", "True">> >> >>,
      << "/b", << >> >> }

\* The requests that arrive while invalidate calls are made.
AdminInputs == { << "/a", << >> >>, << "/b", << >> >> }

\* Their origin answers within every threshold.
AdminElapsedMs == {20}

\* Latencies at the default threshold and just above it.
BreachElapsedMs == { CONFIG.default_max_latency_ms, CONFIG.default_max_latency_ms + 1 }

\* The header lists of requests sent to compare their cache keys: orders,
\* letter cases, repeated names, and headers of the ignored set.
FingerprintHeaders ==
    { << >>,
      << <<"accept", "json">> >>,
      << <<"Accept", "json">> >>,
      << <<"accept", "xml">> >>,
      << <<"accept", "json">>, <<"x-lang", "en">> >>,
      << <<"X-Lang", "en">>, <<"accept", "json">> >>,
      << <<"accept", "json">>, <<"accept", "xml">> >>,
      << <<"accept", "xml">>, <<"accept", "json">> >>,
      << <<"accept", "json">>, <<"x-bypass-cache", "True">> >>,
      << <<"x-bypass-cache", "true">>, <<"accept", "json">> >>,
      << <<"accept", "json">>, <<"cache-control", "no-cache">> >>,
      << <<"accept", "json">>, <<"x-refresh-cache", "1">> >>,
      << <<"accept", "json">>, <<"X-Trace", "abc">> >>,
      << <<"accept", "json">>, <<"x-trace", "xyz">> >> }

FingerprintInputs == { << u, h >> : u \in {"/a", "/b"}, h \in FingerprintHeaders }

\* What the origin may answer: status, body, headers; and how long it took.
\* Bodies are byte sequences: "hello" and "oops".
OriginResponses ==
    { [status |-> 200, body |-> << 104, 101, 108, 108, 111 >>,
       headers |-> << <<"content-length", "5">>, <<"content-type", "text/plain">> >>],
      [status |-> 500, body |-> << 111, 111, 112, 115 >>, headers |-> << >>] }

ElapsedMs == {20, 200}

\* The request and the origin answers of the runs that look at the headers
\* and the status of what is stored and served: 2xx statuses other than 200,
\* a repeated content-length, answers with and without a content-type.
\* The bodies are "hello", "made", the empty body and "oops".
HeaderInputs == { << "/a", << >> >> }

HeaderResponses ==
    { [status |-> 200, body |-> << 104, 101, 108, 108, 111 >>,
       headers |-> << <<"content-length", "5">>, <<"content-type", "text/plain">> >>],
      [status |-> 201, body |-> << 109, 97, 100, 101 >>,
       headers |-> << <<"content-length", "4">>, <<"x-test", "true">>,
                      <<"content-length", "4">> >>],
      [status |-> 204, body |-> << >>, headers |-> << >>],
      [status |-> 500, body |-> << 111, 111, 112, 115 >>,
       headers |-> << <<"content-length", "4">> >>] }

\* (used_kib, total_kib) pairs get_memory_usage_kib may return.
MemSamples == { <<500, 1000>>, <<900, 1000>> }

\* ------------------------------------------------- pure functions: headers

\* HeaderMap::get(name): the first value stored under the name.
RECURSIVE header_get(_, _)
header_get(headers, name) ==
    IF headers = << >> THEN None
    ELSE IF to_ascii_lowercase(Head(headers)[1]) = name THEN Some(Head(headers)[2])
    ELSE header_get(Tail(headers), name)

should_bypass_cache(headers) ==
    LET cc == header_get(headers, "cache-control")
        xb == header_get(headers, "x-bypass-cache")
    IN  \/ cc # None /\ contains_no_cache(to_ascii_lowercase(cc[1]))
        \/ xb # None /\ to_ascii_lowercase(xb[1]) = "true"

\* Config::ignored_headers_set
ignored_headers_set ==
    { to_ascii_lowercase(h) : h \in CONFIG.ignored_headers }
        \cup {"x-bypass-cache", "x-refresh-cache", "cache-control"}

\* Variant of headers_kv: no header is dropped.
RECURSIVE headers_kv_unfiltered(_)
headers_kv_unfiltered(headers) ==
    IF headers = << >> THEN << >>
    ELSE << <<to_ascii_lowercase(Head(headers)[1]), Head(headers)[2]>> >>
         \o headers_kv_unfiltered(Tail(headers))

\* filter + map of proxy_handler: drop the ignored names, lowercase the rest.
RECURSIVE headers_kv(_)
headers_kv(headers) ==
    IF headers = << >> THEN << >>
    ELSE LET k == to_ascii_lowercase(Head(headers)[1])
         IN  IF k \in ignored_headers_set
             THEN headers_kv(Tail(headers))
             ELSE << <<k, Head(headers)[2]>> >> \o headers_kv(Tail(headers))

\* Order of the header names the model uses (str::cmp).
NameRank(k) ==
    CASE k = "accept" -> 1
      [] k = "cache-control" -> 2
      [] k = "x-bypass-cache" -> 3
      [] k = "x-lang" -> 4
      [] k = "x-refresh-cache" -> 5
      [] k = "x-trace" -> 6
      [] OTHER -> 7

\* Stable insertion of a pair into a list sorted by name only.
RECURSIVE sort_insert(_, _)
sort_insert(sorted, kv) ==
    IF sorted = << >> THEN << kv >>
    ELSE IF NameRank(kv[1]) < NameRank(Head(sorted)[1])
         THEN << kv >> \o sorted
         ELSE << Head(sorted) >> \o sort_insert(Tail(sorted), kv)

\* headers_kv.sort_by(|a, b| a.0.cmp(&b.0)): a stable sort on the name.
RECURSIVE sort_by_name(_)
sort_by_name(kvs) ==
    IF kvs = << >> THEN << >>
    ELSE sort_insert(sort_by_name(SubSeq(kvs, 1, Len(kvs) - 1)), kvs[Len(kvs)])

\* "k:v" pairs joined by ";" (a string, as its sequence of tokens).
RECURSIVE relevant_headers(_)
relevant_headers(kvs) ==
    IF kvs = << >> THEN << >>
    ELSE << Head(kvs)[1], ":", Head(kvs)[2] >>
         \o (IF Len(kvs) > 1 THEN << ";" >> ELSE << >>)
         \o relevant_headers(Tail(kvs))

\* SHA-256 in hex: injective on the inputs of the model.
hash_uri(key_source) == << "sha256" >> \o key_source

\* The cache key of a request: hash of "<uri>|<relevant headers>".
cache_key(uri, headers) ==
    hash_uri(<< uri, "|" >> \o relevant_headers(sort_by_name(headers_kv(headers))))

Keys == { cache_key(i[1], i[2]) : i \in RequestInputs \cup FingerprintInputs }

\* ------------------------------------------------ pure functions: HotCache

\* An LruCache is the sequence of its entries, least recently used first.
cache_keys(cache) == { cache[i].key : i \in 1..Len(cache) }

cache_index(cache, key) == CHOOSE i \in 1..Len(cache) : cache[i].key = key

cache_remove(cache, key) ==
    IF key \in cache_keys(cache)
    THEN LET i == cache_index(cache, key)
         IN  SubSeq(cache, 1, i - 1) \o SubSeq(cache, i + 1, Len(cache))
    ELSE cache

\* LruCache::peek: the entry under key, or None; recency untouched.
cache_peek(cache, key) ==
    IF key \in cache_keys(cache) THEN Some(cache[cache_index(cache, key)]) ELSE None

\* Variant of cache_get: a hit leaves the recency order as it is (peek for get).
cache_get_no_touch(cache, key) == cache

\* LruCache::get: a hit moves the entry to the most recently used end.
cache_get(cache, key) ==
    IF key \in cache_keys(cache)
    THEN cache_remove(cache, key) \o << cache[cache_index(cache, key)] >>
    ELSE cache

\* LruCache::put: insert or overwrite, as the most recently used entry.
cache_put(cache, key, body, headers) ==
    cache_remove(cache, key) \o << [key |-> key, body |-> body, headers |-> headers] >>

\* used_kib * 100 / total_kib
usage_percent(sample) == (sample[1] * 100) \div sample[2]

\* Variant of evict_loop: the most recently used entry is never popped.
RECURSIVE evict_loop_spares_newest(_, _, _)
evict_loop_spares_newest(cache, samples, total_kib) ==
    IF samples = << >> THEN cache
    ELSE IF (Head(samples)[1] * 100) \div total_kib >= CONFIG.memory_threshold
         THEN IF Len(cache) <= 1 THEN cache
              ELSE evict_loop_spares_newest(Tail(cache), Tail(samples), total_kib)
         ELSE cache

\* The loop of maybe_evict_if_needed: each round samples used memory again
\* (against the total of the first sample) and pops the least recently used
\* entry while usage is at the threshold.
RECURSIVE evict_loop(_, _, _)
evict_loop(cache, samples, total_kib) ==
    IF samples = << >> THEN cache
    ELSE IF (Head(samples)[1] * 100) \div total_kib >= CONFIG.memory_threshold
         THEN IF cache = << >> THEN cache
              ELSE evict_loop(Tail(cache), Tail(samples), total_kib)
         ELSE cache

\* maybe_evict_if_needed: samples are the successive results of
\* get_memory_usage_kib (the first for the check, the rest for the loop).
maybe_evict_if_needed(cache, samples) ==
    IF usage_percent(Head(samples)) >= CONFIG.memory_threshold
    THEN evict_loop(cache, Tail(samples), Head(samples)[2])
    ELSE cache

\* The sample sequences one call on a cache of n entries may consume.
SampleSeqs(n) == [1..(n + 2) -> MemSamples]

\* Variant of put_all: only the first entry of the batch is put.
put_all_first_only(cache, data) ==
    IF data = << >> THEN cache
    ELSE cache_put(cache, Head(data).key, Head(data).body, Head(data).headers)

\* The for loop of load_into_memory: every (key, entry) of the batch is put, in order.
RECURSIVE put_all(_, _)
put_all(cache, data) ==
    IF data = << >> THEN cache
    ELSE put_all(cache_put(cache, Head(data).key, Head(data).body, Head(data).headers),
                 Tail(data))

\* load_into_memory: put the batch, then maybe_evict_if_needed.
load_into_memory(cache, data, samples) ==
    maybe_evict_if_needed(put_all(cache, data), samples)

\* ------------------------------------------- pure functions: rules/latency

\* Variant of should_failover_at: the window includes its end (<= for <).
should_failover_at_inclusive(fails, t, uri) ==
    IF fails[uri] # None THEN t - fails[uri][1] <= FAILOVER_WINDOW_SECS ELSE FALSE

\* should_failover against a LATENCY_FAILS map and the clock.
should_failover_at(fails, t, uri) ==
    IF fails[uri] # None THEN t - fails[uri][1] < FAILOVER_WINDOW_SECS ELSE FALSE

\* mark_latency_fail: map.insert(uri, Instant::now()).
mark_latency_fail_at(fails, t, uri) == [fails EXCEPT ![uri] = Some(t)]

\* Variant of first_rule: a pattern that does not compile is not skipped.
RECURSIVE first_rule_keeps_invalid(_, _)
first_rule_keeps_invalid(rules, uri) ==
    IF rules = << >> THEN CONFIG.default_max_latency_ms
    ELSE IF uri \in Head(rules).matches
         THEN Head(rules).max_latency_ms
         ELSE first_rule_keeps_invalid(Tail(rules), uri)

\* get_max_latency_for_path: the first rule, in order, that compiles and matches.
RECURSIVE first_rule(_, _)
first_rule(rules, uri) ==
    IF rules = << >> THEN CONFIG.default_max_latency_ms
    ELSE IF Head(rules).valid /\ uri \in Head(rules).matches
         THEN Head(rules).max_latency_ms
         ELSE first_rule(Tail(rules), uri)

get_max_latency_for_path(uri) == first_rule(CONFIG.path_rules, uri)

\* ------------------------------------------- pure functions: rules/refresh

Max(a, b) == IF a >= b THEN a ELSE b

\* 100 / percentage.max(1)
refresh_modulus(percentage) == 100 \div Max(percentage, 1)

\* should_refresh: the counters after the call (unchanged when percentage = 0).
refresh_counters_after(percentage, counters, key) ==
    IF percentage = 0 THEN counters
    ELSE [counters EXCEPT ![key] = @ + 1]

\* Variant of should_refresh: the counter is tested before it is incremented.
should_refresh_before_increment(percentage, counters, key) ==
    IF percentage = 0 THEN FALSE
    ELSE counters[key] % refresh_modulus(percentage) = 0

\* should_refresh: the value returned, with percentage the configured
\* cache.refresh_percentage.
should_refresh(percentage, counters, key) ==
    IF percentage = 0 THEN FALSE
    ELSE (counters[key] + 1) % refresh_modulus(percentage) = 0

\* ------------------------------------------ pure functions: storage format

\* Variant of base64_encode: the last group is not padded.
RECURSIVE base64_encode_no_pad(_)
base64_encode_no_pad(bytes) ==
    IF bytes = << >> THEN << >>
    ELSE IF Len(bytes) = 1
         THEN << bytes[1] \div 4, (bytes[1] % 4) * 16 >>
    ELSE IF Len(bytes) = 2
         THEN << bytes[1] \div 4, (bytes[1] % 4) * 16 + bytes[2] \div 16,
                 (bytes[2] % 16) * 4 >>
    ELSE << bytes[1] \div 4, (bytes[1] % 4) * 16 + bytes[2] \div 16,
            (bytes[2] % 16) * 4 + bytes[3] \div 64, bytes[3] % 64 >>
         \o base64_encode_no_pad(SubSeq(bytes, 4, Len(bytes)))

\* base64 STANDARD.encode: three bytes make four sextets (0..63); a last
\* group of one or two bytes is padded with "=" (written 64).
RECURSIVE base64_encode(_)
base64_encode(bytes) ==
    IF bytes = << >> THEN << >>
    ELSE IF Len(bytes) = 1
         THEN << bytes[1] \div 4, (bytes[1] % 4) * 16, 64, 64 >>
    ELSE IF Len(bytes) = 2
         THEN << bytes[1] \div 4, (bytes[1] % 4) * 16 + bytes[2] \div 16,
                 (bytes[2] % 16) * 4, 64 >>
    ELSE << bytes[1] \div 4, (bytes[1] % 4) * 16 + bytes[2] \div 16,
            (bytes[2] % 16) * 4 + bytes[3] \div 64, bytes[3] % 64 >>
         \o base64_encode(SubSeq(bytes, 4, Len(bytes)))

\* base64 STANDARD.decode: groups of four symbols of the alphabet (0..63);
\* padding (64) only at the end and with zero trailing bits; None for
\* anything else.
RECURSIVE base64_decode(_)
base64_decode(chars) ==
    IF chars = << >> THEN Some(<< >>)
    ELSE IF \E i \in 1..Len(chars) : chars[i] \notin 0..64 THEN None
    ELSE IF Len(chars) < 4 \/ chars[1] = 64 \/ chars[2] = 64 THEN None
    ELSE IF chars[3] = 64
         THEN IF Len(chars) = 4 /\ chars[4] = 64 /\ chars[2] % 16 = 0
              THEN Some(<< chars[1] * 4 + chars[2] \div 16 >>)
              ELSE None
    ELSE IF chars[4] = 64
         THEN IF Len(chars) = 4 /\ chars[3] % 4 = 0
              THEN Some(<< chars[1] * 4 + chars[2] \div 16,
                           (chars[2] % 16) * 16 + chars[3] \div 4 >>)
              ELSE None
    ELSE LET rest == base64_decode(SubSeq(chars, 5, Len(chars)))
         IN  IF rest = None THEN None
             ELSE Some(<< chars[1] * 4 + chars[2] \div 16,
                          (chars[2] % 16) * 16 + chars[3] \div 4,
                          (chars[3] % 4) * 64 + chars[4] >> \o rest[1])

\* serde_json::to_vec(&CachedBlob): the JSON text, as its sequence of
\* <<token, payload>> pairs.
to_vec(blob) ==
    << <<"{", << >> >>, <<"body", blob.body>>, <<"headers", blob.headers>>, <<"}", << >> >> >>

\* serde_json::from_slice::<CachedBlob>: the blob of a complete JSON object
\* with the two fields, or None.
from_slice(json) ==
    IF /\ Len(json) = 4
       /\ json[1][1] = "{" /\ json[2][1] = "body" /\ json[3][1] = "headers" /\ json[4][1] = "}"
    THEN Some([body |-> json[2][2], headers |-> json[3][2]])
    ELSE None

\* GzEncoder: the gzip stream of the data: header, data, trailer.
GzEncoder(data) == << <<"gzip-header", << >> >> >> \o data \o << <<"gzip-trailer", << >> >> >>

\* GzDecoder::read_to_end: the data of a complete gzip stream, or None.
GzDecoder(compressed) ==
    IF /\ Len(compressed) >= 2
       /\ compressed[1][1] = "gzip-header"
       /\ compressed[Len(compressed)][1] = "gzip-trailer"
    THEN Some(SubSeq(compressed, 2, Len(compressed) - 1))
    ELSE None

\* ---------------------------------------------- pure functions: responses

\* Variant of headers_vec: only the first content-length value is removed.
RECURSIVE headers_vec_first_only(_)
headers_vec_first_only(headers) ==
    IF headers = << >> THEN << >>
    ELSE IF Head(headers)[1] = "content-length" THEN Tail(headers)
         ELSE << Head(headers) >> \o headers_vec_first_only(Tail(headers))

\* parts.headers.remove("content-length"), which removes every value stored
\* under the name, then the (name, value) pairs.
RECURSIVE headers_vec(_)
headers_vec(headers) ==
    IF headers = << >> THEN << >>
    ELSE IF Head(headers)[1] = "content-length" THEN headers_vec(Tail(headers))
         ELSE << Head(headers) >> \o headers_vec(Tail(headers))

\* (200..300).contains(&status)
is_success(status) == status >= 200 /\ status < 300

\* Variant of store_decision: the status is not looked at.
store_decision_any_status(bypass_cache, status, exceeded_latency, fallback_active) ==
    /\ ~bypass_cache
    /\ (exceeded_latency \/ ~fallback_active)

\* Variant of store_decision: a breach of this very call does not force the store.
store_decision_no_breach(bypass_cache, status, exceeded_latency, fallback_active) ==
    /\ ~bypass_cache
    /\ is_success(status) /\ ~fallback_active

\* Variant of store_decision: an open circuit does not hold the store back.
store_decision_ignores_fallback(bypass_cache, status, exceeded_latency, fallback_active) ==
    /\ ~bypass_cache
    /\ is_success(status)

\* The store decision of proxy_handler after an origin response.
store_decision(bypass_cache, status, exceeded_latency, fallback_active) ==
    /\ ~bypass_cache
    /\ is_success(status) /\ (exceeded_latency \/ ~fallback_active)

\* Variant of failover_decision: the failover branch is never taken.
failover_decision_never(failover, force_refresh) == FALSE

\* Variant of failover_decision: a refresh or bypass request is diverted as well.
failover_decision_ignores_refresh(failover, force_refresh) == failover

\* The failover decision of proxy_handler.
failover_decision(failover, force_refresh) == failover /\ ~force_refresh

has_content_type(headers) ==
    \E i \in 1..Len(headers) : to_ascii_lowercase(headers[i][1]) = "content-type"

\* Variant of build_response: the default content-type is added in any case.
build_response_default_always(body, headers) ==
    [ status  |-> 200,
      body    |-> body,
      headers |-> headers \o << <<"Content-Type", "application/octet-stream">> >> ]

\* build_response: status 200, the stored headers (content-type defaulted), the body.
build_response(body, headers) ==
    [ status  |-> 200,
      body    |-> body,
      headers |-> IF has_content_type(headers) THEN headers
                  ELSE headers \o << <<"Content-Type", "application/octet-stream">> >> ]

\* The bytes of the body of the 502 of the saturated arm.
TooManyBody ==
    << \* "Too many concurrent requests and no cache available"
       84, 111, 111, 32, 109, 97, 110, 121, 32, 99, 111, 110, 99, 117, 114, 114,
       101, 110, 116, 32, 114, 101, 113, 117, 101, 115, 116, 115, 32, 97, 110, 100,
       32, 110, 111, 32, 99, 97, 99, 104, 101, 32, 97, 118, 97, 105, 108, 97,
       98, 108, 101 >>

\* The bytes of the body of the 502 of try_cache.
NoCacheBody ==
    << \* "Downstream error and no cache"
       68, 111, 119, 110, 115, 116, 114, 101, 97, 109, 32, 101, 114, 114, 111, 114,
       32, 97, 110, 100, 32, 110, 111, 32, 99, 97, 99, 104, 101 >>

TooManyResponse == [status |-> 502, body |-> TooManyBody, headers |-> << >>]

NoCacheResponse == [status |-> 502, body |-> NoCacheBody, headers |-> << >>]

\* ------------------------------------------------------------------ state

VARIABLES
    req,                \* per task: the position in proxy_handler, its locals, its history
    received,           \* number of requests received so far
    MEMORY_CACHE,       \* memory.rs: the LRU cache, least recently used first
    durable,            \* the local backend: key -> the content of the file of the key, or None
    CACHE_WRITER,       \* the mpsc channel: records sent and not yet received
    writer,             \* the record the writer task holds between recv and store
    LATENCY_FAILS,      \* latency.rs: uri -> time of the last mark, or None
    REFRESH_COUNTERS,   \* refresh.rs: key -> number of should_refresh calls
    SEMAPHORE,          \* proxy.rs: permits available
    now,                \* the monotonic clock, in seconds
    last_usage_percent, \* eviction.rs: the percentage seen at the previous tick
    admin,              \* the last response of invalidate_handler, or None
    last_mark,          \* history: uri -> the clock at the latest mark_latency_fail call, or None
    call                \* history: the latest call of a function called on its own, and its result

vars == << req, received, MEMORY_CACHE, durable, CACHE_WRITER, writer, LATENCY_FAILS,
           REFRESH_COUNTERS, SEMAPHORE, now, last_usage_percent, admin, last_mark, call >>

shared == << received, MEMORY_CACHE, durable, CACHE_WRITER, writer, LATENCY_FAILS,
             REFRESH_COUNTERS, SEMAPHORE, now, last_usage_percent, admin, last_mark, call >>

\* should_failover / mark_latency_fail on the state.
should_failover(uri) == should_failover_at(LATENCY_FAILS, now, uri)

mark_latency_fail(uri) == mark_latency_fail_at(LATENCY_FAILS, now, uri)

IdleReq ==
    [ pc            |-> "idle",
      uri           |-> "",
      headers       |-> << >>,
      key           |-> None,
      bypass_cache  |-> FALSE,
      force_refresh |-> FALSE,
      permit        |-> FALSE,   \* holds _permit
      result        |-> "none",  \* of forward_request: none | ok | err
      origin        |-> None,    \* the response of Ok(resp)
      elapsed_ms    |-> 0,
      fallback      |-> None,    \* the record try_cache loaded from the backend
      response      |-> None,    \* what the client receives
      \* history of the request (written, never read, by the handler)
      branch        |-> "none",  \* failover | origin | saturated
      failover_seen |-> FALSE,   \* should_failover at line 143
      hot_before    |-> FALSE,   \* MEMORY_CACHE held the key at line 143
      hot_seen      |-> None,    \* what its get_from_memory returned
      source        |-> "none",  \* origin | hot | durable | none: where the response came from
      hot_inserts   |-> 0,       \* load_into_memory calls
      queue_sends   |-> 0,       \* CACHE_WRITER sends
      hot_reads     |-> 0,       \* get_from_memory calls
      durable_reads |-> 0,       \* load_from_cache calls
      durable_file  |-> FALSE,   \* the backend held a file under the key at its load_from_cache
      io_with_permit|-> FALSE,   \* some cache I/O ran while the permit was held
      mark_time     |-> None,    \* the clock at its mark_latency_fail
      ample         |-> FALSE,   \* its insert sampled memory below the threshold
      stored_under  |-> None,    \* the entry of its key right after its insert
      fallback_active |-> FALSE, \* should_failover at line 208
      cancelled     |-> "none",  \* the await at which its task was dropped
      purged        |-> FALSE ]  \* a memory-only invalidate had removed its key before its origin call failed

\* No function has been called on its own.
NoCall == [op |-> "none"]

\* The process-wide statics after start.
InitStatics ==
    /\ req = [r \in Reqs |-> IdleReq]
    /\ received = 0
    /\ MEMORY_CACHE = << >>
    /\ durable = [k \in Keys |-> None]
    /\ CACHE_WRITER = << >>
    /\ writer = None
    /\ LATENCY_FAILS = [u \in URIs |-> None]
    /\ REFRESH_COUNTERS = [k \in Keys |-> 0]
    /\ SEMAPHORE = CONFIG.max_concurrent_requests
    /\ now = 0
    /\ last_usage_percent = 0
    /\ admin = None
    /\ last_mark = [u \in URIs |-> None]

Init ==
    /\ InitStatics
    /\ call = NoCall

\* ------------------------------------------------- proxy_handler, by steps

\* Lines 89-140: the key, should_bypass_cache and should_refresh.
Receive(r, uri, headers) ==
    /\ req[r].pc = "idle"
    /\ \A q \in Reqs : q < r => req[q].pc # "idle"
    /\ received < MaxRequests
    /\ received' = received + 1
    /\ LET key    == cache_key(uri, headers)
           bypass == should_bypass_cache(headers)
       IN  /\ req' = [req EXCEPT ![r] =
                        [@ EXCEPT !.pc = "check_failover", !.uri = uri, !.headers = headers,
                                  !.key = key, !.bypass_cache = bypass,
                                  !.force_refresh =
                                      should_refresh(CONFIG.refresh_percentage, REFRESH_COUNTERS, key)
                                          \/ bypass]]
           /\ REFRESH_COUNTERS' =
                 refresh_counters_after(CONFIG.refresh_percentage, REFRESH_COUNTERS, key)
    /\ UNCHANGED << call, MEMORY_CACHE, durable, CACHE_WRITER, writer, LATENCY_FAILS,
                    SEMAPHORE, now, last_usage_percent, admin, last_mark >>

\* Lines 142-147: in failover mode and not refreshing, answer from the cache.
CheckFailover(r) ==
    /\ req[r].pc = "check_failover"
    /\ LET failover == should_failover(req[r].uri)
           take     == failover_decision(failover, req[r].force_refresh)
       IN  req' = [req EXCEPT ![r] =
                     [@ EXCEPT !.pc = IF take THEN "try_cache" ELSE "acquire",
                               !.branch = IF take THEN "failover" ELSE @,
                               !.failover_seen = failover,
                               !.hot_before = req[r].key \in cache_keys(MEMORY_CACHE)]]
    /\ UNCHANGED shared

\* Variant of try_acquire_ok: a permit is handed out whether or not one is left.
try_acquire_ok_always(permits) == TRUE

\* Line 150: SEMAPHORE.try_acquire_owned(), which never waits.
try_acquire_ok(permits) == permits > 0

Acquire(r) ==
    /\ req[r].pc = "acquire"
    /\ IF try_acquire_ok(SEMAPHORE)
       THEN /\ SEMAPHORE' = SEMAPHORE - 1
            /\ req' = [req EXCEPT ![r] = [@ EXCEPT !.pc = "forward", !.permit = TRUE,
                                                   !.branch = "origin"]]
       ELSE /\ SEMAPHORE' = SEMAPHORE
            /\ req' = [req EXCEPT ![r] = [@ EXCEPT !.pc = "saturated", !.branch = "saturated"]]
    /\ UNCHANGED << call, received, MEMORY_CACHE, durable, CACHE_WRITER, writer, LATENCY_FAILS,
                    REFRESH_COUNTERS, now, last_usage_percent, admin, last_mark >>

\* Variant of exceeded_latency: a latency equal to the threshold exceeds it.
exceeded_latency_inclusive(elapsed_ms, uri) == elapsed_ms >= get_max_latency_for_path(uri)

\* Lines 160-182: a latency above the threshold marks the URI.
exceeded_latency(elapsed_ms, uri) == elapsed_ms > get_max_latency_for_path(uri)

\* Lines 158-182: forward_request returns Ok(resp) after elapsed_ms, and a
\* latency above the threshold marks the URI.
ForwardOk(r, resp, elapsed_ms) ==
    /\ req[r].pc = "forward"
    /\ IF exceeded_latency(elapsed_ms, req[r].uri)
       THEN /\ LATENCY_FAILS' = mark_latency_fail(req[r].uri)
            /\ last_mark' = [last_mark EXCEPT ![req[r].uri] = Some(now)]
            /\ req' = [req EXCEPT ![r] = [@ EXCEPT !.pc = "decide", !.result = "ok",
                                                   !.origin = Some(resp),
                                                   !.elapsed_ms = elapsed_ms,
                                                   !.mark_time = Some(now)]]
       ELSE /\ UNCHANGED << LATENCY_FAILS, last_mark >>
            /\ req' = [req EXCEPT ![r] = [@ EXCEPT !.pc = "decide", !.result = "ok",
                                                   !.origin = Some(resp),
                                                   !.elapsed_ms = elapsed_ms]]
    /\ UNCHANGED << call, received, MEMORY_CACHE, durable, CACHE_WRITER, writer, REFRESH_COUNTERS,
                    SEMAPHORE, now, last_usage_percent, admin >>

\* Line 236: forward_request returns Err(()).
ForwardErr(r) ==
    /\ req[r].pc = "forward"
    /\ req' = [req EXCEPT ![r] =
                 [@ EXCEPT !.pc = "try_cache", !.result = "err",
                           !.purged = /\ admin # None
                                      /\ ~admin[1].backend
                                      /\ req[r].key \in admin[1].purged]]
    /\ UNCHANGED shared

\* Variant of after_decision: a storing request goes to the send at once.
after_decision_send_first(store) == IF store THEN "send" ELSE "done"

\* Lines 211-217: a storing request first awaits load_into_memory, then the send.
after_decision(store) == IF store THEN "store_mem" ELSE "done"

\* Lines 205-232: whether the response is stored.
Decide(r) ==
    /\ req[r].pc = "decide"
    /\ LET resp  == req[r].origin[1]
           store == store_decision(req[r].bypass_cache, resp.status,
                                   exceeded_latency(req[r].elapsed_ms, req[r].uri),
                                   should_failover(req[r].uri))
       IN  req' = [req EXCEPT ![r] = [@ EXCEPT !.pc = after_decision(store),
                                               !.fallback_active = should_failover(req[r].uri),
                                               !.response = Some([status  |-> resp.status,
                                                                  body    |-> resp.body,
                                                                  headers |-> headers_vec(resp.headers)]),
                                               !.source = "origin"]]
    /\ UNCHANGED shared

\* Line 212: memory::load_into_memory(vec![(key, cached_response)]).
StoreMem(r, samples) ==
    /\ req[r].pc = "store_mem"
    /\ LET resp  == req[r].origin[1]
           after == load_into_memory(MEMORY_CACHE,
                                     << [key |-> req[r].key, body |-> resp.body,
                                         headers |-> headers_vec(resp.headers)] >>,
                                     samples)
       IN  /\ MEMORY_CACHE' = after
           /\ req' = [req EXCEPT ![r] =
                        [@ EXCEPT !.pc = "send", !.hot_inserts = @ + 1,
                                  !.io_with_permit = @ \/ req[r].permit,
                                  !.ample = usage_percent(samples[1]) < CONFIG.memory_threshold,
                                  !.stored_under = cache_peek(after, req[r].key)]]
    /\ UNCHANGED << call, received, durable, CACHE_WRITER, writer, LATENCY_FAILS, REFRESH_COUNTERS,
                    SEMAPHORE, now, last_usage_percent, admin, last_mark >>

\* Lines 213-215: CACHE_WRITER.send(..).await, which waits for room in the channel.
Send(r) ==
    /\ req[r].pc = "send"
    /\ Len(CACHE_WRITER) < QueueCap
    /\ CACHE_WRITER' = Append(CACHE_WRITER,
                              [key |-> req[r].key, body |-> req[r].origin[1].body,
                               headers |-> headers_vec(req[r].origin[1].headers)])
    /\ req' = [req EXCEPT ![r] = [@ EXCEPT !.pc = "done", !.queue_sends = @ + 1,
                                           !.io_with_permit = @ \/ req[r].permit]]
    /\ UNCHANGED << call, received, MEMORY_CACHE, durable, writer, LATENCY_FAILS, REFRESH_COUNTERS,
                    SEMAPHORE, now, last_usage_percent, admin, last_mark >>

\* Variant of saturated_response: the 502 of try_cache is answered instead.
saturated_response_downstream(cached) ==
    IF cached # None THEN build_response(cached[1].body, cached[1].headers)
    ELSE NoCacheResponse

\* Lines 248-256: the cached entry, or 502.
saturated_response(cached) ==
    IF cached # None THEN build_response(cached[1].body, cached[1].headers)
    ELSE TooManyResponse

\* Lines 244-257: no permit: the memory cache or 502.
Saturated(r) ==
    /\ req[r].pc = "saturated"
    /\ LET cached == cache_peek(MEMORY_CACHE, req[r].key)
       IN  /\ MEMORY_CACHE' = cache_get(MEMORY_CACHE, req[r].key)
           /\ req' = [req EXCEPT ![r] =
                        [@ EXCEPT !.pc = "done", !.hot_reads = @ + 1, !.hot_seen = cached,
                                  !.response = Some(saturated_response(cached)),
                                  !.source = IF cached # None THEN "hot" ELSE "none"]]
    /\ UNCHANGED << call, received, durable, CACHE_WRITER, writer, LATENCY_FAILS, REFRESH_COUNTERS,
                    SEMAPHORE, now, last_usage_percent, admin, last_mark >>

\* Variant of Return: the permit is given back only by a request answered
\* with the response of the origin.
ReturnLeaks(r) ==
    /\ req[r].pc = "done"
    /\ SEMAPHORE' = IF req[r].permit /\ req[r].source = "origin" THEN SEMAPHORE + 1 ELSE SEMAPHORE
    /\ req' = [req EXCEPT ![r] = IdleReq]
    /\ UNCHANGED << call, received, MEMORY_CACHE, durable, CACHE_WRITER, writer, LATENCY_FAILS,
                    REFRESH_COUNTERS, now, last_usage_percent, admin, last_mark >>

\* The handler returns its response: the match arm ends and _permit, if
\* held, is dropped; the task is free for another request.
Return(r) ==
    /\ req[r].pc = "done"
    /\ SEMAPHORE' = IF req[r].permit THEN SEMAPHORE + 1 ELSE SEMAPHORE
    /\ req' = [req EXCEPT ![r] = IdleReq]
    /\ UNCHANGED << call, received, MEMORY_CACHE, durable, CACHE_WRITER, writer, LATENCY_FAILS,
                    REFRESH_COUNTERS, now, last_usage_percent, admin, last_mark >>

\* The positions at which the handler is suspended in an .await.
AwaitPoints == {"forward", "decide", "store_mem", "send", "saturated",
                "try_cache", "try_durable", "promote"}

\* The task of the request is dropped at an await (the client went away):
\* nothing after it runs, and the drop of the future gives the permit back
\* (Return).
Cancel(r) ==
    /\ req[r].pc \in AwaitPoints
    /\ req' = [req EXCEPT ![r] = [@ EXCEPT !.pc = "done", !.cancelled = req[r].pc]]
    /\ UNCHANGED shared

\* ------------------------------------------------------ try_cache, by steps

\* Variant of try_cache_memory_hit: the memory cache is never taken as a hit.
try_cache_memory_hit_never(cached) == FALSE

\* Line 264: if let Some(cached) = memory::get_from_memory(key).
try_cache_memory_hit(cached) == cached # None

\* Lines 263-268: memory first.
TryCacheMemory(r) ==
    /\ req[r].pc = "try_cache"
    /\ LET cached == cache_peek(MEMORY_CACHE, req[r].key)
           hit    == try_cache_memory_hit(cached)
       IN  /\ MEMORY_CACHE' = cache_get(MEMORY_CACHE, req[r].key)
           /\ req' = [req EXCEPT ![r] =
                        [@ EXCEPT !.pc = IF hit THEN "done" ELSE "try_durable",
                                  !.hot_reads = @ + 1, !.hot_seen = cached,
                                  !.io_with_permit = @ \/ req[r].permit,
                                  !.response = IF hit
                                               THEN Some(build_response(cached[1].body, cached[1].headers))
                                               ELSE @,
                                  !.source = IF hit THEN "hot" ELSE @]]
    /\ UNCHANGED << call, received, durable, CACHE_WRITER, writer, LATENCY_FAILS, REFRESH_COUNTERS,
                    SEMAPHORE, now, last_usage_percent, admin, last_mark >>

\* Variant of load_from_cache: a body that is not base64 is returned empty.
load_from_cache_lenient(store, key) ==
    IF store[key] = None THEN None
    ELSE LET decompressed == GzDecoder(store[key][1])
         IN  IF decompressed = None THEN None
             ELSE LET blob == from_slice(decompressed[1])
                  IN  IF blob = None THEN None
                      ELSE LET decoded == base64_decode(blob[1].body)
                           IN  Some([body |-> IF decoded = None THEN << >> ELSE decoded[1],
                                     headers |-> blob[1].headers])

\* local::load_from_cache: read the file, gunzip, parse the JSON blob, decode
\* the base64 body; None when any of these fails.
load_from_cache(store, key) ==
    IF store[key] = None THEN None
    ELSE LET decompressed == GzDecoder(store[key][1])
         IN  IF decompressed = None THEN None
             ELSE LET blob == from_slice(decompressed[1])
                  IN  IF blob = None THEN None
                      ELSE LET decoded == base64_decode(blob[1].body)
                           IN  IF decoded = None THEN None
                               ELSE Some([body |-> decoded[1], headers |-> blob[1].headers])

\* Variant of durable_response: a miss answers the 502 of the saturated arm.
durable_response_too_many(fallback) ==
    IF fallback # None THEN build_response(fallback[1].body, fallback[1].headers)
    ELSE TooManyResponse

\* Lines 279-294: the loaded record, or 502.
durable_response(fallback) ==
    IF fallback # None THEN build_response(fallback[1].body, fallback[1].headers)
    ELSE NoCacheResponse

\* Lines 270-295: then the persistent backend, or 502.
TryCacheDurable(r) ==
    /\ req[r].pc = "try_durable"
    /\ LET fallback == load_from_cache(durable, req[r].key)
       IN  req' = [req EXCEPT ![r] =
                     [@ EXCEPT !.pc = IF fallback # None THEN "promote" ELSE "done",
                               !.durable_reads = @ + 1,
                               !.durable_file = durable[req[r].key] # None,
                               !.fallback = fallback,
                               !.io_with_permit = @ \/ req[r].permit,
                               !.response = Some(durable_response(fallback)),
                               !.source = IF fallback # None THEN "durable" ELSE "none"]]
    /\ UNCHANGED shared

\* Line 287: the loaded record is put into the memory cache.
Promote(r, samples) ==
    /\ req[r].pc = "promote"
    /\ LET after == load_into_memory(MEMORY_CACHE,
                                     << [key |-> req[r].key, body |-> req[r].fallback[1].body,
                                         headers |-> req[r].fallback[1].headers] >>,
                                     samples)
       IN  /\ MEMORY_CACHE' = after
           /\ req' = [req EXCEPT ![r] =
                        [@ EXCEPT !.pc = "done", !.hot_inserts = @ + 1,
                                  !.io_with_permit = @ \/ req[r].permit,
                                  !.ample = usage_percent(samples[1]) < CONFIG.memory_threshold,
                                  !.stored_under = cache_peek(after, req[r].key)]]
    /\ UNCHANGED << call, received, durable, CACHE_WRITER, writer, LATENCY_FAILS, REFRESH_COUNTERS,
                    SEMAPHORE, now, last_usage_percent, admin, last_mark >>

\* ------------------------------------------------- the CACHE_WRITER task

\* Variant of recv: the newest record leaves the channel.
recv_newest(queue) ==
    [record |-> queue[Len(queue)], rest |-> SubSeq(queue, 1, Len(queue) - 1)]

\* rx.recv() on a channel that holds records: the oldest one, and what stays.
recv(queue) == [record |-> Head(queue), rest |-> Tail(queue)]

\* rx.recv(): the oldest record leaves the channel.
WriterRecv ==
    /\ writer = None
    /\ CACHE_WRITER # << >>
    /\ writer' = Some(recv(CACHE_WRITER).record)
    /\ CACHE_WRITER' = recv(CACHE_WRITER).rest
    /\ UNCHANGED << call, received, req, MEMORY_CACHE, durable, LATENCY_FAILS, REFRESH_COUNTERS,
                    SEMAPHORE, now, last_usage_percent, admin, last_mark >>

\* local::store_in_cache: the compressed blob replaces the file ("ok"), nothing
\* is written ("failed": the directory or the file cannot be created), or the
\* file is created and write_all fails part-way ("partial"). No outcome is
\* reported or retried.
store_in_cache(store, rec, outcome) ==
    LET blob       == [body |-> base64_encode(rec.body), headers |-> rec.headers]
        compressed == GzEncoder(to_vec(blob))
    IN  CASE outcome = "ok"      -> [store EXCEPT ![rec.key] = Some(compressed)]
          [] outcome = "partial" -> [store EXCEPT ![rec.key] =
                                        Some(SubSeq(compressed, 1, Len(compressed) \div 2))]
          [] OTHER               -> store

StoreOutcomes == {"ok", "failed", "partial"}

\* Variant of after_store: a record whose store did not succeed is kept and
\* stored again.
after_store_retry(held, outcome) == IF outcome = "ok" THEN None ELSE held

\* Lines 72-83: store_in_cache returns nothing; whatever happened, the loop
\* goes back to rx.recv() and the record is gone.
after_store(held, outcome) == None

\* Lines 72-76: the record held is passed to store_in_cache of the backend.
writer_store(outcome) ==
    /\ writer # None
    /\ durable' = store_in_cache(durable, writer[1], outcome)
    /\ writer' = after_store(writer, outcome)
    /\ UNCHANGED << received, req, MEMORY_CACHE, CACHE_WRITER, LATENCY_FAILS, REFRESH_COUNTERS,
                    SEMAPHORE, now, last_usage_percent, admin, last_mark >>

WriterStore(outcome) ==
    /\ writer_store(outcome)
    /\ UNCHANGED call

\* ------------------------------------------- the CACHE_WRITER task alone

\* The records sent to the channel.
WriterRecords ==
    { [key |-> k, body |-> b, headers |-> << <<"content-type", "text/plain">> >>] :
        k \in { cache_key("/a", << >>), cache_key("/b", << >>) }, b \in { << 1 >>, << 2 >> } }

\* The journal of the channel: the records accepted, in order, and the
\* records passed to store_in_cache with what happened, in order.
InitWriter ==
    /\ InitStatics
    /\ call = [op |-> "journal", accepted |-> << >>, applied |-> << >>]

\* CACHE_WRITER.send(rec).await completes: the channel has room and accepts the record.
SendRecord(rec) ==
    /\ Len(call.accepted) < MaxSends
    /\ Len(CACHE_WRITER) < JournalCap
    /\ CACHE_WRITER' = Append(CACHE_WRITER, rec)
    /\ call' = [call EXCEPT !.accepted = Append(@, rec)]
    /\ UNCHANGED << received, req, MEMORY_CACHE, durable, writer, LATENCY_FAILS, REFRESH_COUNTERS,
                    SEMAPHORE, now, last_usage_percent, admin, last_mark >>

\* The writer passes the record it holds to store_in_cache.
JournalStore(outcome) ==
    /\ writer_store(outcome)
    /\ call' = [call EXCEPT !.applied = Append(@, [rec |-> writer[1], outcome |-> outcome])]

\* ------------------------------------------- the background eviction task

\* Variant of monitor_triggers: the pass runs whenever usage is at or above
\* the threshold.
monitor_triggers_at_threshold(current_percent, last_percent) ==
    current_percent >= CONFIG.memory_threshold

\* Line 45: if current_percent > last_usage_percent.
monitor_triggers(current_percent, last_percent) == current_percent > last_percent

\* One round of the loop of start_background_eviction_task: samples[1] is
\* the sample of line 41, the rest are those of maybe_evict_if_needed.
eviction_tick(samples) ==
    /\ LET current_percent == usage_percent(samples[1])
       IN  /\ MEMORY_CACHE' = IF monitor_triggers(current_percent, last_usage_percent)
                              THEN maybe_evict_if_needed(MEMORY_CACHE, Tail(samples))
                              ELSE MEMORY_CACHE
           /\ last_usage_percent' = current_percent
    /\ UNCHANGED << received, req, durable, CACHE_WRITER, writer, LATENCY_FAILS, REFRESH_COUNTERS,
                    SEMAPHORE, now, admin, last_mark >>

EvictionTick(samples) ==
    /\ eviction_tick(samples)
    /\ UNCHANGED call

\* ------------------------------------- memory.rs functions called on their own

\* The keys, bodies and batches of the direct calls.
MemoryKeys ==
    { cache_key("/a", << >>), cache_key("/b", << >>), cache_key("/a", << <<"accept", "json">> >>) }

Entry(key, body) == [key |-> key, body |-> body, headers |-> << <<"content-type", "text/plain">> >>]

MemoryBatches ==
    LET k1 == cache_key("/a", << >>)
        k2 == cache_key("/b", << >>)
        k3 == cache_key("/a", << <<"accept", "json">> >>)
        b1 == << 118, 49 >>
        b2 == << 255, 0, 50 >>
    IN  { << Entry(k1, b1) >>,
          << Entry(k1, b2) >>,
          << Entry(k2, b1) >>,
          << Entry(k1, b1), Entry(k2, b2) >>,
          << Entry(k3, b1), Entry(k1, b2), Entry(k3, b2) >> }

\* The keys that direct calls have inserted so far.
Ever == IF call.op = "none" THEN {} ELSE call.ever

\* maybe_evict_if_needed runs under the write lock of the cache: while its
\* loop is running no other call enters the cache.
cache_locked == call.op = "evict" /\ call.pc = "loop"

\* load_into_memory(data), called on its own.
LoadIntoMemory(data, samples) ==
    /\ ~cache_locked
    /\ MEMORY_CACHE' = load_into_memory(MEMORY_CACHE, data, samples)
    /\ call' = [op |-> "load", data |-> data,
                ample |-> usage_percent(samples[1]) < CONFIG.memory_threshold,
                ever |-> Ever \cup { data[i].key : i \in 1..Len(data) }]
    /\ UNCHANGED << req, received, durable, CACHE_WRITER, writer, LATENCY_FAILS,
                    REFRESH_COUNTERS, SEMAPHORE, now, last_usage_percent, admin, last_mark >>

\* get_from_memory(key), called on its own: cache.get(key).cloned().
GetFromMemory(key) ==
    /\ ~cache_locked
    /\ MEMORY_CACHE' = cache_get(MEMORY_CACHE, key)
    /\ call' = [op |-> "get", key |-> key, result |-> cache_peek(MEMORY_CACHE, key),
                after |-> IF call.op = "load"
                          THEN [op |-> "load", data |-> call.data, ample |-> call.ample]
                          ELSE [op |-> call.op],
                ever |-> Ever]
    /\ UNCHANGED << req, received, durable, CACHE_WRITER, writer, LATENCY_FAILS,
                    REFRESH_COUNTERS, SEMAPHORE, now, last_usage_percent, admin, last_mark >>

\* maybe_evict_if_needed, lines 84-92: the threshold, the first sample and
\* the check that opens the loop.
EvictBegin(sample) ==
    /\ ~cache_locked
    /\ call' = [op |-> "evict",
                pc |-> IF usage_percent(sample) >= CONFIG.memory_threshold
                       THEN "loop" ELSE "returned",
                cache0 |-> MEMORY_CACHE, samples |-> << sample >>, total_kib |-> sample[2],
                last_percent |-> usage_percent(sample),
                iterations |-> 0, removed |-> 0, ever |-> Ever]
    /\ UNCHANGED << req, received, MEMORY_CACHE, durable, CACHE_WRITER, writer, LATENCY_FAILS,
                    REFRESH_COUNTERS, SEMAPHORE, now, last_usage_percent, admin, last_mark >>

\* Variant of evict_iter_pc: the loop body runs once (an if for the while).
evict_iter_pc_once(over, cache) == "returned"

\* Lines 100-107: the loop goes on after a pop_lru that removed an entry; it
\* ends when the sample is below the threshold or the cache is empty.
evict_iter_pc(over, cache) == IF over /\ cache # << >> THEN "loop" ELSE "returned"

\* maybe_evict_if_needed, lines 100-108: one evaluation of the while
\* condition on a new sample, and one pop_lru or the break.
EvictIter(sample) ==
    /\ cache_locked
    /\ LET percent == (sample[1] * 100) \div call.total_kib
           over    == percent >= CONFIG.memory_threshold
           pop     == over /\ MEMORY_CACHE # << >>
       IN  /\ MEMORY_CACHE' = IF pop THEN Tail(MEMORY_CACHE) ELSE MEMORY_CACHE
           /\ call' = [call EXCEPT !.pc = evict_iter_pc(over, MEMORY_CACHE),
                                   !.samples = Append(@, sample),
                                   !.last_percent = percent,
                                   !.iterations = @ + 1,
                                   !.removed = IF pop THEN @ + 1 ELSE @]
    /\ UNCHANGED << req, received, durable, CACHE_WRITER, writer, LATENCY_FAILS,
                    REFRESH_COUNTERS, SEMAPHORE, now, last_usage_percent, admin, last_mark >>

\* ---------------------------------- storage/local.rs functions called on their own

\* The keys, bodies (non-UTF-8 bytes included) and header lists of the direct calls.
StorageKeys == { cache_key("/a", << >>), cache_key("/b", << >>) }

StorageBodies == { << >>, << 255 >>, << 72, 105 >>, << 255, 254, 253, 10 >> }

StorageHeaders ==
    { << >>,
      << <<"content-type", "text/plain">>, <<"x-test", "true">> >>,
      << <<"x-test", "true">>, <<"content-type", "text/plain">> >> }

\* store_in_cache(key, data, headers), called on its own.
StoreInCache(key, data, headers, outcome) ==
    /\ durable' = store_in_cache(durable, [key |-> key, body |-> data, headers |-> headers], outcome)
    /\ call' = [op |-> "store", key |-> key, body |-> data, headers |-> headers,
                outcome |-> outcome, replaced |-> durable[key]]
    /\ UNCHANGED << req, received, MEMORY_CACHE, CACHE_WRITER, writer, LATENCY_FAILS,
                    REFRESH_COUNTERS, SEMAPHORE, now, last_usage_percent, admin, last_mark >>

\* load_from_cache(key), called on its own; file is what the backend held
\* under the key when it was called.
LoadFromCache(key) ==
    /\ call' = [op |-> "load_from_cache", key |-> key, result |-> load_from_cache(durable, key),
                file |-> durable[key],
                after |-> IF call.op = "store" THEN call ELSE [op |-> call.op]]
    /\ UNCHANGED << req, received, MEMORY_CACHE, durable, CACHE_WRITER, writer, LATENCY_FAILS,
                    REFRESH_COUNTERS, SEMAPHORE, now, last_usage_percent, admin, last_mark >>

\* The files the tests write under a key: bytes that are no gzip stream, the
\* gzip of a text that is no JSON, and the gzip of a JSON blob whose body
\* holds symbols outside the base64 alphabet.
NotGzipFile == << <<"raw", << 110, 111, 116, 32, 103, 122, 105, 112 >> >> >>

NotJsonFile == GzEncoder(<< <<"text", << 84, 104, 105, 115 >> >> >>)

NotBase64File ==
    GzEncoder(to_vec([body |-> << 99, 99, 99, 99, 13, 14, 19, 1 >>,
                      headers |-> << <<"X-Test", "true">> >>]))

CorruptFiles == { NotGzipFile, NotJsonFile, NotBase64File }

\* The bodies stored next to the corrupt files.
DecodeBodies == { << 255 >>, << 72, 105 >> }

\* fs::write(&path, contents), as the tests do it.
WriteFile(key, contents) ==
    /\ durable' = [durable EXCEPT ![key] = Some(contents)]
    /\ call' = [op |-> "write", key |-> key]
    /\ UNCHANGED << req, received, MEMORY_CACHE, CACHE_WRITER, writer, LATENCY_FAILS,
                    REFRESH_COUNTERS, SEMAPHORE, now, last_usage_percent, admin, last_mark >>

\* ------------------------------- memory.rs with the journal of its recency

\* The batches of these runs.
RecencyBatches ==
    { << Entry(k, << 118, 49 >>) >> : k \in MemoryKeys }
        \cup { << Entry(cache_key("/a", << >>), << 118, 49 >>),
                 Entry(cache_key("/b", << >>), << 118, 49 >>) >> }

\* The journal: a count of the inserts and reads made so far, and per key
\* the count at its latest insert and at its latest insert or hit (0: never);
\* removed are the keys the latest call evicted. Of the latest load, or of
\* the load right before the latest read: loaded are its keys, held the
\* number of entries the cache held before it, and pressed tells that every
\* usage the call sampled was at or above the threshold. result is what the
\* latest read returned.
InitRecency ==
    /\ InitStatics
    /\ call = [op |-> "none", clock |-> 0,
               inserted |-> [k \in MemoryKeys |-> 0],
               touched  |-> [k \in MemoryKeys |-> 0],
               removed  |-> {}, loaded |-> {}, held |-> 0, pressed |-> FALSE,
               key |-> None, result |-> None]

\* Every usage a call computes from its samples (the total of the first
\* sample is used throughout) is at or above the threshold.
all_over_threshold(samples) ==
    \A i \in 1..Len(samples) :
        (samples[i][1] * 100) \div samples[1][2] >= CONFIG.memory_threshold

\* The journal after the puts of a batch, made in order from count clock.
RECURSIVE touch_all(_, _, _)
touch_all(journal, data, clock) ==
    IF data = << >> THEN journal
    ELSE touch_all([k \in MemoryKeys |-> IF k = Head(data).key THEN clock + 1 ELSE journal[k]],
                   Tail(data), clock + 1)

\* load_into_memory(data): the puts and the eviction pass run under one
\* hold of the write lock.
RecencyLoad(data, samples) ==
    /\ call.clock + Len(data) <= MaxTouches
    /\ MEMORY_CACHE' = load_into_memory(MEMORY_CACHE, data, samples)
    /\ call' = [op |-> "load", clock |-> call.clock + Len(data),
                inserted |-> touch_all(call.inserted, data, call.clock),
                touched  |-> touch_all(call.touched, data, call.clock),
                removed  |-> cache_keys(put_all(MEMORY_CACHE, data))
                                \ cache_keys(load_into_memory(MEMORY_CACHE, data, samples)),
                loaded   |-> { data[i].key : i \in 1..Len(data) },
                held     |-> Len(MEMORY_CACHE),
                pressed  |-> all_over_threshold(samples),
                key |-> None, result |-> None]
    /\ UNCHANGED << req, received, durable, CACHE_WRITER, writer, LATENCY_FAILS,
                    REFRESH_COUNTERS, SEMAPHORE, now, last_usage_percent, admin, last_mark >>

\* get_from_memory(key): cache.get(key) under the write lock.
RecencyGet(key) ==
    /\ call.clock < MaxTouches
    /\ MEMORY_CACHE' = cache_get(MEMORY_CACHE, key)
    /\ call' = [op |-> "get", clock |-> call.clock + 1,
                inserted |-> call.inserted,
                touched  |-> IF key \in cache_keys(MEMORY_CACHE)
                             THEN [call.touched EXCEPT ![key] = call.clock + 1]
                             ELSE call.touched,
                removed  |-> {},
                loaded   |-> IF call.op = "load" THEN call.loaded ELSE {},
                held     |-> IF call.op = "load" THEN call.held ELSE 0,
                pressed  |-> call.op = "load" /\ call.pressed,
                key |-> Some(key), result |-> cache_peek(MEMORY_CACHE, key)]
    /\ UNCHANGED << req, received, durable, CACHE_WRITER, writer, LATENCY_FAILS,
                    REFRESH_COUNTERS, SEMAPHORE, now, last_usage_percent, admin, last_mark >>

\* maybe_evict_if_needed(&mut cache), as the eviction task calls it.
RecencyEvict(samples) ==
    /\ MEMORY_CACHE' = maybe_evict_if_needed(MEMORY_CACHE, samples)
    /\ call' = [call EXCEPT !.op = "evict",
                            !.removed = cache_keys(MEMORY_CACHE)
                                            \ cache_keys(maybe_evict_if_needed(MEMORY_CACHE, samples)),
                            !.loaded = {}, !.held = 0, !.pressed = FALSE,
                            !.key = None, !.result = None]
    /\ UNCHANGED << req, received, durable, CACHE_WRITER, writer, LATENCY_FAILS,
                    REFRESH_COUNTERS, SEMAPHORE, now, last_usage_percent, admin, last_mark >>

\* -------------------------------------- the eviction task next to loads

\* One round of the eviction task, with what it sampled and what it found.
MonitorTick(samples) ==
    /\ ~cache_locked
    /\ eviction_tick(samples)
    /\ call' = [op |-> "tick", samples |-> samples, previous |-> last_usage_percent,
                before |-> MEMORY_CACHE, ever |-> Ever]

\* ------------------------------------------- storage/s3.rs called on its own

\* The gzip stream of a byte string (the body object).
s3_compress(data) == GzEncoder(<< <<"bytes", data>> >>)

\* The bytes of a decompressed stream of byte-string tokens.
RECURSIVE bytes_of(_)
bytes_of(tokens) ==
    IF tokens = << >> THEN << >> ELSE Head(tokens)[2] \o bytes_of(Tail(tokens))

\* serde_json::to_vec(&headers): the JSON array of the (name, value) pairs.
headers_to_vec(headers) == << <<"[", << >> >>, <<"pairs", headers>>, <<"]", << >> >> >>

\* serde_json::from_slice::<Vec<(String, String)>>: the pairs of a complete
\* JSON array, or None.
headers_from_slice(json) ==
    IF Len(json) = 3 /\ json[1][1] = "[" /\ json[2][1] = "pairs" /\ json[3][1] = "]"
    THEN Some(json[2][2])
    ELSE None

\* What a request to the object store does: head_bucket succeeds or fails;
\* get_object of an object succeeds, fails, or succeeds with a body stream
\* that breaks off (collect fails); put_object succeeds or fails.
FetchOutcomes == {"ok", "get_failed", "collect_failed"}

S3StoreOutcomes == {"ok", "head_failed", "body_put_failed", "meta_put_failed"}

\* s3::store_in_cache: the two objects after the call.
s3_store_in_cache(bucket, data, headers, outcome) ==
    CASE outcome = "ok" ->
            [data |-> Some(s3_compress(data)), meta |-> Some(GzEncoder(headers_to_vec(headers)))]
      [] outcome = "meta_put_failed" ->
            [data |-> Some(s3_compress(data)), meta |-> bucket.meta]
      [] OTHER -> bucket

\* Lines 239-274: the headers of the meta object, or the empty list when it
\* cannot be fetched, read, decompressed or parsed.
s3_headers(meta, meta_fetch) ==
    IF meta = None \/ meta_fetch # "ok" THEN << >>
    ELSE LET decompressed == GzDecoder(meta[1])
         IN  IF decompressed = None THEN << >>
             ELSE LET h == headers_from_slice(decompressed[1])
                  IN  IF h = None THEN << >> ELSE h[1]

\* Variant of s3_load_from_cache: a meta object that gives no headers fails the load.
s3_load_from_cache_meta_required(bucket, head_ok, body_fetch, meta_fetch) ==
    IF ~head_ok THEN None
    ELSE IF bucket.data = None \/ body_fetch # "ok" THEN None
    ELSE LET decompressed == GzDecoder(bucket.data[1])
         IN  IF decompressed = None \/ s3_headers(bucket.meta, meta_fetch) = << >> THEN None
             ELSE Some([body |-> bytes_of(decompressed[1]),
                        headers |-> s3_headers(bucket.meta, meta_fetch)])

\* s3::load_from_cache: Err (None) when head_bucket fails, when the body
\* object cannot be fetched or read, or when it is no gzip stream; otherwise
\* Ok with the decompressed body and the headers of the meta object.
s3_load_from_cache(bucket, head_ok, body_fetch, meta_fetch) ==
    IF ~head_ok THEN None
    ELSE IF bucket.data = None \/ body_fetch # "ok" THEN None
    ELSE LET decompressed == GzDecoder(bucket.data[1])
         IN  IF decompressed = None THEN None
             ELSE Some([body |-> bytes_of(decompressed[1]),
                        headers |-> s3_headers(bucket.meta, meta_fetch)])

\* Objects that are no gzip stream, and a meta object that is no JSON array.
S3NotGzip == << <<"raw", << 110, 111 >> >> >>

S3NotJson == GzEncoder(<< <<"text", << 110, 111 >> >> >>)

S3Bodies == { << >>, << 72, 105 >> }

S3Headers == { << >>, << <<"content-type", "text/plain">>, <<"x-test", "true">> >> }

\* The bucket holds no object; nothing was called.
InitS3 ==
    /\ InitStatics
    /\ call = [op |-> "s3", bucket |-> [data |-> None, meta |-> None], before |-> None,
               head_ok |-> TRUE, body_fetch |-> "ok", meta_fetch |-> "ok", result |-> None]

\* s3::store_in_cache(key, data, headers), called on its own.
S3StoreInCache(data, headers, outcome) ==
    /\ call' = [call EXCEPT !.op = "s3_store",
                            !.bucket = s3_store_in_cache(call.bucket, data, headers, outcome)]
    /\ UNCHANGED << req, received, MEMORY_CACHE, durable, CACHE_WRITER, writer, LATENCY_FAILS,
                    REFRESH_COUNTERS, SEMAPHORE, now, last_usage_percent, admin, last_mark >>

\* An object is replaced or removed behind the back of the cache.
S3PutObject(which, contents) ==
    /\ call' = [call EXCEPT !.op = "s3_put",
                            !.bucket = IF which = "data" THEN [@ EXCEPT !.data = contents]
                                       ELSE [@ EXCEPT !.meta = contents]]
    /\ UNCHANGED << req, received, MEMORY_CACHE, durable, CACHE_WRITER, writer, LATENCY_FAILS,
                    REFRESH_COUNTERS, SEMAPHORE, now, last_usage_percent, admin, last_mark >>

\* s3::load_from_cache(key), called on its own.
S3LoadFromCache(head_ok, body_fetch, meta_fetch) ==
    /\ call' = [call EXCEPT !.op = "s3_load", !.head_ok = head_ok, !.body_fetch = body_fetch,
                            !.meta_fetch = meta_fetch, !.before = Some(call.bucket),
                            !.result = s3_load_from_cache(call.bucket, head_ok, body_fetch,
                                                          meta_fetch)]
    /\ UNCHANGED << req, received, MEMORY_CACHE, durable, CACHE_WRITER, writer, LATENCY_FAILS,
                    REFRESH_COUNTERS, SEMAPHORE, now, last_usage_percent, admin, last_mark >>

\* ------------------------------ get_max_latency_for_path called on its own

\* The URIs asked about, and the rules of a configuration: a pattern
\* compiles or not (valid) and, as a regex, matches a set of these URIs.
RuleURIs == {"/a", "/b", "/c"}

Rules ==
    [ valid : BOOLEAN, matches : { {}, {"/a"}, {"/a", "/b"} }, max_latency_ms : {100, 3000} ]

\* The lists of at most MaxRules rules.
RuleLists == UNION { [1..n -> Rules] : n \in 0..MaxRules }

\* A run under one configured list of rules.
InitRules ==
    /\ InitStatics
    /\ \E rules \in RuleLists : call = [op |-> "configured", rules |-> rules, uri |-> "", result |-> 0]

\* get_max_latency_for_path(uri), called on its own.
GetMaxLatencyForPath(uri) ==
    /\ call' = [call EXCEPT !.op = "get_max_latency_for_path", !.uri = uri,
                            !.result = first_rule(call.rules, uri)]
    /\ UNCHANGED << req, received, MEMORY_CACHE, durable, CACHE_WRITER, writer, LATENCY_FAILS,
                    REFRESH_COUNTERS, SEMAPHORE, now, last_usage_percent, admin, last_mark >>

\* ---------------------------------- rules/refresh.rs function called on its own

\* Values of cache.refresh_percentage, and the keys of the direct calls.
Percentages == {0, 1, 7, 10, 33, 50, 100}

RefreshKeys == { cache_key("/a", << >>), cache_key("/b", << >>) }

\* A run under one configured percentage; calls counts the calls per key.
InitRefresh ==
    /\ InitStatics
    /\ \E p \in Percentages :
          call = [op |-> "configured", percentage |-> p, key |-> None, result |-> FALSE,
                  calls |-> [k \in RefreshKeys |-> 0]]

\* should_refresh(key), called on its own.
ShouldRefresh(key) ==
    /\ call.calls[key] < MaxCalls
    /\ REFRESH_COUNTERS' = refresh_counters_after(call.percentage, REFRESH_COUNTERS, key)
    /\ call' = [call EXCEPT !.op = "should_refresh", !.key = Some(key),
                            !.result = should_refresh(call.percentage, REFRESH_COUNTERS, key),
                            !.calls[key] = @ + 1]
    /\ UNCHANGED << req, received, MEMORY_CACHE, durable, CACHE_WRITER, writer, LATENCY_FAILS,
                    SEMAPHORE, now, last_usage_percent, admin, last_mark >>

\* ------------------- should_refresh under every percentage the loader accepts

\* cache.refresh_percentage is a u8 that from_file reads and does not
\* range-check: every value of 0..=255 reaches should_refresh.
LoadedPercentages == {0, 1, 50, 100, 101, 200, 255}

InitLoaded ==
    /\ InitStatics
    /\ \E p \in LoadedPercentages :
          call = [op |-> "configured", percentage |-> p, key |-> None, result |-> FALSE,
                  outcome |-> "none", poisoned |-> FALSE,
                  calls |-> [k \in RefreshKeys |-> 0]]

\* should_refresh: how the call ends. The remainder by a modulus of zero
\* panics while the guard of REFRESH_COUNTERS is alive, which poisons the
\* mutex; lock().unwrap() on the poisoned mutex panics in every later call.
should_refresh_outcome(percentage, poisoned) ==
    IF percentage = 0 THEN "returned"
    ELSE IF poisoned THEN "panicked at lock"
    ELSE IF refresh_modulus(percentage) = 0 THEN "panicked at remainder"
    ELSE "returned"

\* should_refresh(key), called on its own under a loaded percentage: the
\* counter is incremented before the remainder is computed.
LoadedShouldRefresh(key) ==
    LET outcome == should_refresh_outcome(call.percentage, call.poisoned) IN
    /\ call.calls[key] < MaxCalls
    /\ REFRESH_COUNTERS' = IF outcome = "panicked at lock" THEN REFRESH_COUNTERS
                           ELSE refresh_counters_after(call.percentage, REFRESH_COUNTERS, key)
    /\ call' = [call EXCEPT !.op = "should_refresh", !.key = Some(key),
                            !.outcome = outcome,
                            !.poisoned = @ \/ outcome # "returned",
                            !.result = IF outcome = "returned"
                                       THEN should_refresh(call.percentage, REFRESH_COUNTERS, key)
                                       ELSE @,
                            !.calls[key] = @ + 1]
    /\ UNCHANGED << req, received, MEMORY_CACHE, durable, CACHE_WRITER, writer, LATENCY_FAILS,
                    SEMAPHORE, now, last_usage_percent, admin, last_mark >>

\* ----------------------------- should_refresh called by concurrent tasks

Callers == 1..NumCallers

\* The percentages of these runs (moduli 100, 3, 2 and 1) and the values of
\* a counter when the calls begin.
SamplerPercentages == {0, 33, 50, 100}

StartCounts == {0, 1, 2}

\* A task that has not called yet.
IdleCaller == [pc |-> "idle", key |-> None, seen |-> 0, result |-> FALSE]

\* The statics after start and some earlier calls: the counters of the two
\* keys hold the number of those calls (none when the percentage is 0,
\* which never counts); holder is the task that holds the mutex, and waited
\* are the tasks whose call began while another task held it.
InitSampler ==
    /\ req = [r \in Reqs |-> IdleReq]
    /\ received = 0
    /\ MEMORY_CACHE = << >>
    /\ durable = [k \in Keys |-> None]
    /\ CACHE_WRITER = << >>
    /\ writer = None
    /\ LATENCY_FAILS = [u \in URIs |-> None]
    /\ SEMAPHORE = CONFIG.max_concurrent_requests
    /\ now = 0
    /\ last_usage_percent = 0
    /\ admin = None
    /\ last_mark = [u \in URIs |-> None]
    /\ \E p \in SamplerPercentages, start \in [RefreshKeys -> StartCounts] :
          /\ p = 0 => \A k \in RefreshKeys : start[k] = 0
          /\ REFRESH_COUNTERS = [k \in Keys |-> IF k \in RefreshKeys THEN start[k] ELSE 0]
          /\ call = [op |-> "concurrent", percentage |-> p, start |-> start, holder |-> None,
                     waited |-> {}, callers |-> [t \in Callers |-> IdleCaller]]

\* Variant of mutex_free: the lock is handed out whether or not it is held.
mutex_free_always(holder) == TRUE

\* Mutex::lock returns when no task holds the mutex.
mutex_free(holder) == holder = None

\* Lines 27-32: the call begins; with percentage 0 it returns false at once.
SamplerStart(t, key) ==
    /\ call.callers[t].pc = "idle"
    /\ call' = [call EXCEPT !.callers[t] =
                    [@ EXCEPT !.pc = IF call.percentage = 0 THEN "returned" ELSE "lock",
                              !.key = Some(key)],
                            !.waited = IF call.percentage # 0 /\ call.holder # None
                                       THEN @ \cup {t} ELSE @]
    /\ UNCHANGED << req, received, MEMORY_CACHE, durable, CACHE_WRITER, writer, LATENCY_FAILS,
                    REFRESH_COUNTERS, SEMAPHORE, now, last_usage_percent, admin, last_mark >>

\* Line 34: REFRESH_COUNTERS.lock().
SamplerLock(t) ==
    /\ call.callers[t].pc = "lock"
    /\ mutex_free(call.holder)
    /\ call' = [call EXCEPT !.holder = Some(t), !.callers[t].pc = "load"]
    /\ UNCHANGED << req, received, MEMORY_CACHE, durable, CACHE_WRITER, writer, LATENCY_FAILS,
                    REFRESH_COUNTERS, SEMAPHORE, now, last_usage_percent, admin, last_mark >>

\* Lines 35-36, first half: the counter of the key is read.
SamplerLoad(t) ==
    /\ call.callers[t].pc = "load"
    /\ call' = [call EXCEPT !.callers[t] =
                    [@ EXCEPT !.pc = "add", !.seen = REFRESH_COUNTERS[call.callers[t].key[1]]]]
    /\ UNCHANGED << req, received, MEMORY_CACHE, durable, CACHE_WRITER, writer, LATENCY_FAILS,
                    REFRESH_COUNTERS, SEMAPHORE, now, last_usage_percent, admin, last_mark >>

\* Line 36, second half: the value read, plus one, is written back.
SamplerAdd(t) ==
    /\ call.callers[t].pc = "add"
    /\ REFRESH_COUNTERS' = [REFRESH_COUNTERS EXCEPT ![call.callers[t].key[1]] =
                                call.callers[t].seen + 1]
    /\ call' = [call EXCEPT !.callers[t] = [@ EXCEPT !.pc = "test", !.seen = @ + 1]]
    /\ UNCHANGED << req, received, MEMORY_CACHE, durable, CACHE_WRITER, writer, LATENCY_FAILS,
                    SEMAPHORE, now, last_usage_percent, admin, last_mark >>

\* Lines 38-39: the new value of the counter is tested against the modulus.
SamplerTest(t) ==
    /\ call.callers[t].pc = "test"
    /\ call' = [call EXCEPT !.callers[t] =
                    [@ EXCEPT !.pc = "unlock",
                              !.result = call.callers[t].seen % refresh_modulus(call.percentage) = 0]]
    /\ UNCHANGED << req, received, MEMORY_CACHE, durable, CACHE_WRITER, writer, LATENCY_FAILS,
                    REFRESH_COUNTERS, SEMAPHORE, now, last_usage_percent, admin, last_mark >>

\* Lines 47-48: the call returns and the guard of the mutex is dropped.
SamplerReturn(t) ==
    /\ call.callers[t].pc = "unlock"
    /\ call' = [call EXCEPT !.holder = IF @ = Some(t) THEN None ELSE @,
                            !.callers[t].pc = "returned"]
    /\ UNCHANGED << req, received, MEMORY_CACHE, durable, CACHE_WRITER, writer, LATENCY_FAILS,
                    REFRESH_COUNTERS, SEMAPHORE, now, last_usage_percent, admin, last_mark >>

\* ------------------------------------- the locks of the request engine

\* The parties that take locks: the request tasks, and 0 for the admin
\* invalidate handler.
Parties == Callers \cup {0}

\* The calls of proxy_handler and try_cache that take a lock: the position
\* at which the task waits for it, the lock and how it is taken, and the
\* positions the task may be at when the call has returned.
\*   should_refresh (proxy.rs 140): the mutex of REFRESH_COUNTERS
\*   should_failover (143 and 208): LATENCY_FAILS.read()
\*   mark_latency_fail (175): LATENCY_FAILS.write()
\*   load_into_memory (212, 287) and get_from_memory (248, 264): MEMORY_CACHE.write()
LockedCalls ==
    [ should_refresh    |-> [lock |-> "refresh", mode |-> "write",
                             next |-> {"should_failover"}],
      should_failover   |-> [lock |-> "latency", mode |-> "read",
                             next |-> {"get_from_memory", "try_acquire"}],
      mark_latency_fail |-> [lock |-> "latency", mode |-> "write",
                             next |-> {"fallback_active"}],
      fallback_active   |-> [lock |-> "latency", mode |-> "read",
                             next |-> {"load_into_memory", "done"}],
      load_into_memory  |-> [lock |-> "memory", mode |-> "write", next |-> {"done"}],
      get_from_memory   |-> [lock |-> "memory", mode |-> "write", next |-> {"done"}] ]

\* A task that runs no request.
IdleTask == [pc |-> "idle", inside |-> FALSE, permit |-> FALSE]

\* No request runs and no lock is held; held gives the (lock, mode) pairs
\* each party holds, and passed the tasks that took a lock while some
\* origin call was outstanding.
InitLocks ==
    /\ InitStatics
    /\ call = [op |-> "locks", tasks |-> [t \in Callers |-> IdleTask],
               held |-> [t \in Parties |-> {}], passed |-> {}]

\* A lock can be taken in a mode by a party when no other party holds it,
\* or, for a read, when the others hold it for reading only.
lock_available(held, party, lock, mode) ==
    \A u \in Parties \ {party} :
        \A h \in held[u] : h[1] = lock => (mode = "read" /\ h[2] = "read")

\* Variant of locks_after_return: the guard outlives the call that took it.
locks_after_return_kept(locks) == locks

\* The guard is a local of the call that took the lock: it is dropped when
\* the call returns, and the caller holds nothing.
locks_after_return(locks) == {}

\* The tasks inside forward_request.
InOrigin == { t \in Callers : call.tasks[t].pc = "forward" }

\* Lines 89-139: a request arrives; its first locked call is should_refresh.
TaskReceive(t) ==
    /\ call.tasks[t].pc = "idle"
    /\ call' = [call EXCEPT !.tasks[t].pc = "should_refresh"]
    /\ UNCHANGED << req, received, MEMORY_CACHE, durable, CACHE_WRITER, writer, LATENCY_FAILS,
                    REFRESH_COUNTERS, SEMAPHORE, now, last_usage_percent, admin, last_mark >>

\* The lock of the call the task is at is taken.
LockTake(t) ==
    /\ call.tasks[t].pc \in DOMAIN LockedCalls
    /\ ~call.tasks[t].inside
    /\ LET c == LockedCalls[call.tasks[t].pc]
       IN  /\ lock_available(call.held, t, c.lock, c.mode)
           /\ call' = [call EXCEPT !.tasks[t].inside = TRUE,
                                   !.held[t] = @ \cup { << c.lock, c.mode >> },
                                   !.passed = IF InOrigin \ {t} # {} THEN @ \cup {t} ELSE @]
    /\ UNCHANGED << req, received, MEMORY_CACHE, durable, CACHE_WRITER, writer, LATENCY_FAILS,
                    REFRESH_COUNTERS, SEMAPHORE, now, last_usage_percent, admin, last_mark >>

\* The call returns: its guard is dropped and the task goes on. After a
\* lookup the handler returns; a task that holds a permit does not go to
\* try_acquire again.
LockDrop(t, next) ==
    /\ call.tasks[t].pc \in DOMAIN LockedCalls
    /\ call.tasks[t].inside
    /\ next \in LockedCalls[call.tasks[t].pc].next
    /\ call' = [call EXCEPT !.tasks[t].inside = FALSE, !.tasks[t].pc = next,
                            !.held[t] = locks_after_return(@)]
    /\ UNCHANGED << req, received, MEMORY_CACHE, durable, CACHE_WRITER, writer, LATENCY_FAILS,
                    REFRESH_COUNTERS, SEMAPHORE, now, last_usage_percent, admin, last_mark >>

\* Lines 150-158 and 244-248: with a permit the origin call begins; without
\* one the memory cache is looked up.
TaskTryAcquire(t) ==
    /\ call.tasks[t].pc = "try_acquire"
    /\ IF try_acquire_ok(SEMAPHORE)
       THEN /\ SEMAPHORE' = SEMAPHORE - 1
            /\ call' = [call EXCEPT !.tasks[t].pc = "forward", !.tasks[t].permit = TRUE]
       ELSE /\ SEMAPHORE' = SEMAPHORE
            /\ call' = [call EXCEPT !.tasks[t].pc = "get_from_memory"]
    /\ UNCHANGED << req, received, MEMORY_CACHE, durable, CACHE_WRITER, writer, LATENCY_FAILS,
                    REFRESH_COUNTERS, now, last_usage_percent, admin, last_mark >>

\* Lines 158-240: forward_request returns, if it ever does: a response above
\* the threshold (mark_latency_fail), one within it, or an error (try_cache).
OriginReturns(t, next) ==
    /\ call.tasks[t].pc = "forward"
    /\ next \in {"mark_latency_fail", "fallback_active", "get_from_memory"}
    /\ call' = [call EXCEPT !.tasks[t].pc = next]
    /\ UNCHANGED << req, received, MEMORY_CACHE, durable, CACHE_WRITER, writer, LATENCY_FAILS,
                    REFRESH_COUNTERS, SEMAPHORE, now, last_usage_percent, admin, last_mark >>

\* The handler returns; a permit held is dropped.
TaskReturn(t) ==
    /\ call.tasks[t].pc = "done"
    /\ SEMAPHORE' = IF call.tasks[t].permit THEN SEMAPHORE + 1 ELSE SEMAPHORE
    /\ call' = [call EXCEPT !.tasks[t] = IdleTask]
    /\ UNCHANGED << req, received, MEMORY_CACHE, durable, CACHE_WRITER, writer, LATENCY_FAILS,
                    REFRESH_COUNTERS, now, last_usage_percent, admin, last_mark >>

\* clean.rs 40: invalidate_handler takes MEMORY_CACHE.write().
FlushTake ==
    /\ call.held[0] = {}
    /\ lock_available(call.held, 0, "memory", "write")
    /\ call' = [call EXCEPT !.held[0] = { << "memory", "write" >> },
                            !.passed = IF InOrigin # {} THEN @ \cup {0} ELSE @]
    /\ UNCHANGED << req, received, MEMORY_CACHE, durable, CACHE_WRITER, writer, LATENCY_FAILS,
                    REFRESH_COUNTERS, SEMAPHORE, now, last_usage_percent, admin, last_mark >>

\* clean.rs 72: invalidate_handler returns and its guard is dropped.
FlushDrop ==
    /\ call.held[0] # {}
    /\ call' = [call EXCEPT !.held[0] = locks_after_return(@)]
    /\ UNCHANGED << req, received, MEMORY_CACHE, durable, CACHE_WRITER, writer, LATENCY_FAILS,
                    REFRESH_COUNTERS, SEMAPHORE, now, last_usage_percent, admin, last_mark >>

\* ------------------------------------------------------ invalidate_handler

\* What the file system does to local::delete_all_from_cache: everything
\* succeeds, read_dir fails, or read_dir succeeds and remove_file fails.
DeleteOutcomes == {"ok", "read_dir_failed", "remove_failed"}

\* local::delete_all_from_cache: the records left. Every record is removed;
\* or the directory cannot be read, or the files cannot be removed, and none is.
delete_all_from_cache(store, outcome) ==
    IF outcome = "ok" THEN [k \in Keys |-> None] ELSE store

\* local::delete_all_from_cache: the value returned. A remove_file failure is
\* logged and the count of deleted files is still returned as Ok.
delete_all_result(outcome) ==
    IF outcome = "read_dir_failed" THEN "Err" ELSE "Ok"

\* Query(params): backend is absent, false or true.
InvalidateParams == { None, Some(FALSE), Some(TRUE) }

\* params.backend.unwrap_or(false)
unwrap_or_false(backend) == IF backend = None THEN FALSE ELSE backend[1]

\* Variant of backends_after: the backends are purged whatever the parameter.
backends_after_purge_always(backend_enabled, store, outcome) ==
    delete_all_from_cache(store, outcome)

\* Lines 46-61: the backends are asked to delete only when backend_enabled.
backends_after(backend_enabled, store, outcome) ==
    IF backend_enabled THEN delete_all_from_cache(store, outcome) ELSE store

\* Lines 54-58 and 71: task.await is Err only when the spawned task panicked
\* or was cancelled; the Result the deletion returned is dropped, and the
\* status is OK.
invalidate_status(backend_enabled, result) == 200

\* Lines 63-69: the message of the answer.
invalidate_message(backend_enabled) ==
    IF backend_enabled THEN "Cleared in-memory cache and requested deletion from all backends"
    ELSE "Cleared in-memory cache only"

\* The invalidate calls answered so far.
invalidations == IF admin = None THEN 0 ELSE admin[1].calls

\* DELETE /cache?backend=<bool>: the memory cache is cleared; with
\* backend=true the backends are asked to delete; the answer is always OK.
\* admin keeps the answer, with the keys the call removed from memory and
\* what happened to the deletion it asked for (None when it asked for none).
invalidate_step(backend, outcome) ==
    /\ invalidations < MaxInvalidations
    /\ LET backend_enabled == unwrap_or_false(backend)
           result          == IF backend_enabled THEN Some(delete_all_result(outcome)) ELSE None
       IN  /\ MEMORY_CACHE' = << >>
           /\ durable' = backends_after(backend_enabled, durable, outcome)
           /\ admin' = Some([status |-> invalidate_status(backend_enabled, result),
                             message |-> invalidate_message(backend_enabled),
                             backend |-> backend_enabled, param |-> backend,
                             purge |-> IF backend_enabled THEN Some(outcome) ELSE None,
                             purged |-> cache_keys(MEMORY_CACHE),
                             calls |-> invalidations + 1])
    /\ UNCHANGED << received, req, CACHE_WRITER, writer, LATENCY_FAILS, REFRESH_COUNTERS,
                    SEMAPHORE, now, last_usage_percent, last_mark >>

invalidate_handler(backend, outcome) ==
    /\ invalidate_step(backend, outcome)
    /\ UNCHANGED call

\* An invalidate call with the journal of the moment it was made: the
\* number of requests received so far, whether every one of them had
\* returned, and the records then in the channel or with the writer.
JournalInvalidate(backend, outcome) ==
    /\ invalidate_step(backend, outcome)
    /\ call' = [op |-> "invalidate", received |-> received,
                quiet |-> \A r \in Reqs : req[r].pc = "idle",
                pending |-> (IF writer = None THEN << >> ELSE << writer[1] >>) \o CACHE_WRITER]

\* ------------------------------------------------------------------ time

\* The clock advances by d seconds, up to limit.
Tick(d, limit) ==
    /\ now + d <= limit
    /\ now' = now + d
    /\ UNCHANGED << call, req, received, MEMORY_CACHE, durable, CACHE_WRITER, writer, LATENCY_FAILS,
                    REFRESH_COUNTERS, SEMAPHORE, last_usage_percent, admin, last_mark >>

\* mark_latency_fail(uri), called on its own.
MarkLatencyFail(uri) ==
    /\ LATENCY_FAILS' = mark_latency_fail(uri)
    /\ last_mark' = [last_mark EXCEPT ![uri] = Some(now)]
    /\ UNCHANGED << call, req, received, MEMORY_CACHE, durable, CACHE_WRITER, writer,
                    REFRESH_COUNTERS, SEMAPHORE, now, last_usage_percent, admin >>

\* --------------------------------------------------------- specification

Next ==
    \/ \E r \in Reqs, i \in RequestInputs : Receive(r, i[1], i[2])
    \/ \E r \in Reqs : CheckFailover(r)
    \/ \E r \in Reqs : Acquire(r)
    \/ \E r \in Reqs, resp \in OriginResponses, ms \in ElapsedMs : ForwardOk(r, resp, ms)
    \/ \E r \in Reqs : ForwardErr(r)
    \/ \E r \in Reqs : Decide(r)
    \/ \E r \in Reqs : \E samples \in SampleSeqs(Len(MEMORY_CACHE) + 1) : StoreMem(r, samples)
    \/ \E r \in Reqs : Send(r)
    \/ \E r \in Reqs : Saturated(r)
    \/ \E r \in Reqs : Return(r)
    \/ \E r \in Reqs : TryCacheMemory(r)
    \/ \E r \in Reqs : TryCacheDurable(r)
    \/ \E r \in Reqs : \E samples \in SampleSeqs(Len(MEMORY_CACHE) + 1) : Promote(r, samples)
    \/ WriterRecv
    \/ \E outcome \in StoreOutcomes : WriterStore(outcome)
    \/ Tick(TickSecs, MaxTime)

\* The request engine with its writer task and the clock.
Spec == Init /\ [][Next]_vars

\* The latency circuit alone: marks and the clock, on a finer time scale.
NextCircuit ==
    \/ \E u \in URIs : MarkLatencyFail(u)
    \/ Tick(FineTickSecs, MaxFineTime)

SpecCircuit == Init /\ [][NextCircuit]_vars

\* The key derivation alone: requests that differ in their headers arrive.
NextFingerprint ==
    \E r \in Reqs, i \in FingerprintInputs : Receive(r, i[1], i[2])

SpecFingerprint == Init /\ [][NextFingerprint]_vars

\* The memory cache alone: loads, reads and eviction passes.
NextMemory ==
    \/ \E data \in MemoryBatches :
          \E samples \in SampleSeqs(Len(MEMORY_CACHE) + Len(data)) : LoadIntoMemory(data, samples)
    \/ \E key \in MemoryKeys : GetFromMemory(key)
    \/ \E sample \in MemSamples : EvictBegin(sample)
    \/ \E sample \in MemSamples : EvictIter(sample)

SpecMemory == Init /\ [][NextMemory]_vars

\* The local backend alone: stores and loads.
NextStorage ==
    \/ \E key \in StorageKeys, data \in StorageBodies, headers \in StorageHeaders,
          outcome \in StoreOutcomes : StoreInCache(key, data, headers, outcome)
    \/ \E key \in StorageKeys : LoadFromCache(key)

SpecStorage == Init /\ [][NextStorage]_vars

\* The request engine and its writer task with the admin invalidate handler.
NextAdmin ==
    \/ \E r \in Reqs, i \in AdminInputs : Receive(r, i[1], i[2])
    \/ \E r \in Reqs : CheckFailover(r)
    \/ \E r \in Reqs : Acquire(r)
    \/ \E r \in Reqs, resp \in OriginResponses, ms \in AdminElapsedMs : ForwardOk(r, resp, ms)
    \/ \E r \in Reqs : ForwardErr(r)
    \/ \E r \in Reqs : Decide(r)
    \/ \E r \in Reqs : \E samples \in SampleSeqs(Len(MEMORY_CACHE) + 1) : StoreMem(r, samples)
    \/ \E r \in Reqs : Send(r)
    \/ \E r \in Reqs : Saturated(r)
    \/ \E r \in Reqs : Return(r)
    \/ \E r \in Reqs : TryCacheMemory(r)
    \/ \E r \in Reqs : TryCacheDurable(r)
    \/ \E r \in Reqs : \E samples \in SampleSeqs(Len(MEMORY_CACHE) + 1) : Promote(r, samples)
    \/ WriterRecv
    \/ \E outcome \in StoreOutcomes : WriterStore(outcome)
    \/ \E backend \in InvalidateParams, outcome \in DeleteOutcomes :
          invalidate_handler(backend, outcome)

SpecAdmin == Init /\ [][NextAdmin]_vars

\* The local backend with files that cannot be decoded.
NextDecode ==
    \/ \E key \in StorageKeys, contents \in CorruptFiles : WriteFile(key, contents)
    \/ \E key \in StorageKeys, data \in DecodeBodies, outcome \in StoreOutcomes :
          StoreInCache(key, data, << <<"x-test", "true">> >>, outcome)
    \/ \E key \in StorageKeys : LoadFromCache(key)

SpecDecode == Init /\ [][NextDecode]_vars

\* The latency thresholds alone, under each list of rules.
NextRules == \E uri \in RuleURIs : GetMaxLatencyForPath(uri)

SpecRules == InitRules /\ [][NextRules]_vars

\* The request engine with origin latencies at and just above the threshold.
NextBreach ==
    \/ \E r \in Reqs, i \in RequestInputs : Receive(r, i[1], i[2])
    \/ \E r \in Reqs : CheckFailover(r)
    \/ \E r \in Reqs : Acquire(r)
    \/ \E r \in Reqs, resp \in OriginResponses, ms \in BreachElapsedMs : ForwardOk(r, resp, ms)
    \/ \E r \in Reqs : ForwardErr(r)
    \/ \E r \in Reqs : Decide(r)
    \/ \E r \in Reqs : \E samples \in SampleSeqs(Len(MEMORY_CACHE) + 1) : StoreMem(r, samples)
    \/ \E r \in Reqs : Send(r)
    \/ \E r \in Reqs : Saturated(r)
    \/ \E r \in Reqs : Return(r)
    \/ \E r \in Reqs : TryCacheMemory(r)
    \/ \E r \in Reqs : TryCacheDurable(r)
    \/ \E r \in Reqs : \E samples \in SampleSeqs(Len(MEMORY_CACHE) + 1) : Promote(r, samples)
    \/ WriterRecv
    \/ \E outcome \in StoreOutcomes : WriterStore(outcome)
    \/ Tick(TickSecs, MaxTime)

SpecBreach == Init /\ [][NextBreach]_vars

\* The request engine and its writer task with requests dropped at their awaits.
NextCancel ==
    \/ \E r \in Reqs, i \in AdminInputs : Receive(r, i[1], i[2])
    \/ \E r \in Reqs : CheckFailover(r)
    \/ \E r \in Reqs : Acquire(r)
    \/ \E r \in Reqs, resp \in OriginResponses, ms \in AdminElapsedMs : ForwardOk(r, resp, ms)
    \/ \E r \in Reqs : ForwardErr(r)
    \/ \E r \in Reqs : Decide(r)
    \/ \E r \in Reqs : \E samples \in SampleSeqs(Len(MEMORY_CACHE) + 1) : StoreMem(r, samples)
    \/ \E r \in Reqs : Send(r)
    \/ \E r \in Reqs : Saturated(r)
    \/ \E r \in Reqs : Return(r)
    \/ \E r \in Reqs : TryCacheMemory(r)
    \/ \E r \in Reqs : TryCacheDurable(r)
    \/ \E r \in Reqs : \E samples \in SampleSeqs(Len(MEMORY_CACHE) + 1) : Promote(r, samples)
    \/ \E r \in Reqs : Cancel(r)
    \/ WriterRecv
    \/ \E outcome \in StoreOutcomes : WriterStore(outcome)

SpecCancel == Init /\ [][NextCancel]_vars

\* The writer task alone, with the journal of its channel.
NextWriter ==
    \/ \E rec \in WriterRecords : SendRecord(rec)
    \/ WriterRecv
    \/ \E outcome \in StoreOutcomes : JournalStore(outcome)

SpecWriter == InitWriter /\ [][NextWriter]_vars

\* The writer task is scheduled: a record in the channel is received, and
\* a store_in_cache call returns.
SpecWriterFair ==
    /\ SpecWriter
    /\ WF_vars(WriterRecv)
    /\ WF_vars(\E outcome \in StoreOutcomes : JournalStore(outcome))

\* The eviction task with loads into the memory cache.
NextMonitor ==
    \/ \E data \in MemoryBatches :
          \E samples \in SampleSeqs(Len(MEMORY_CACHE) + Len(data)) : LoadIntoMemory(data, samples)
    \/ \E samples \in SampleSeqs(Len(MEMORY_CACHE) + 1) : MonitorTick(samples)

SpecMonitor == Init /\ [][NextMonitor]_vars

\* The S3 backend alone: stores, loads, and objects that go missing or bad.
NextS3 ==
    \/ \E data \in S3Bodies, headers \in S3Headers, outcome \in S3StoreOutcomes :
          S3StoreInCache(data, headers, outcome)
    \/ \E which \in {"data", "meta"}, contents \in {None, Some(S3NotGzip), Some(S3NotJson)} :
          S3PutObject(which, contents)
    \/ \E head_ok \in BOOLEAN, body_fetch \in FetchOutcomes, meta_fetch \in FetchOutcomes :
          S3LoadFromCache(head_ok, body_fetch, meta_fetch)

SpecS3 == InitS3 /\ [][NextS3]_vars

\* The refresh sampler alone, under each percentage.
NextRefresh == \E key \in RefreshKeys : ShouldRefresh(key)

SpecRefresh == InitRefresh /\ [][NextRefresh]_vars

NextLoaded == \E key \in RefreshKeys : LoadedShouldRefresh(key)

SpecLoaded == InitLoaded /\ [][NextLoaded]_vars

\* The statics after start under a configuration that admits every task
\* of the model to the origin at once.
InitCoherence ==
    /\ req = [r \in Reqs |-> IdleReq]
    /\ received = 0
    /\ MEMORY_CACHE = << >>
    /\ durable = [k \in Keys |-> None]
    /\ CACHE_WRITER = << >>
    /\ writer = None
    /\ LATENCY_FAILS = [u \in URIs |-> None]
    /\ REFRESH_COUNTERS = [k \in Keys |-> 0]
    /\ SEMAPHORE = NumReqs
    /\ now = 0
    /\ last_usage_percent = 0
    /\ admin = None
    /\ last_mark = [u \in URIs |-> None]
    /\ call = NoCall

\* Sample sequences of a machine with memory to spare: no call evicts.
AmpleSeqs(n) == [1..(n + 2) -> { << 500, 1000 >> }]

\* Concurrent requests for one key whose origin calls succeed: no eviction,
\* no purge, and every store_in_cache writes its file.
NextCoherence ==
    \/ \E r \in Reqs, i \in HeaderInputs : Receive(r, i[1], i[2])
    \/ \E r \in Reqs : CheckFailover(r)
    \/ \E r \in Reqs : Acquire(r)
    \/ \E r \in Reqs, resp \in HeaderResponses, ms \in AdminElapsedMs : ForwardOk(r, resp, ms)
    \/ \E r \in Reqs : Decide(r)
    \/ \E r \in Reqs : \E samples \in AmpleSeqs(Len(MEMORY_CACHE) + 1) : StoreMem(r, samples)
    \/ \E r \in Reqs : Send(r)
    \/ \E r \in Reqs : Return(r)
    \/ WriterRecv
    \/ WriterStore("ok")

SpecCoherence == InitCoherence /\ [][NextCoherence]_vars

\* The request engine and its writer task with an invalidate call that
\* asks for the deletion of the backends, and whose deletion succeeds.
NextPurge ==
    \/ \E r \in Reqs, i \in HeaderInputs : Receive(r, i[1], i[2])
    \/ \E r \in Reqs : CheckFailover(r)
    \/ \E r \in Reqs : Acquire(r)
    \/ \E r \in Reqs, resp \in OriginResponses, ms \in AdminElapsedMs : ForwardOk(r, resp, ms)
    \/ \E r \in Reqs : ForwardErr(r)
    \/ \E r \in Reqs : Decide(r)
    \/ \E r \in Reqs : \E samples \in SampleSeqs(Len(MEMORY_CACHE) + 1) : StoreMem(r, samples)
    \/ \E r \in Reqs : Send(r)
    \/ \E r \in Reqs : Saturated(r)
    \/ \E r \in Reqs : Return(r)
    \/ \E r \in Reqs : TryCacheMemory(r)
    \/ \E r \in Reqs : TryCacheDurable(r)
    \/ \E r \in Reqs : \E samples \in SampleSeqs(Len(MEMORY_CACHE) + 1) : Promote(r, samples)
    \/ WriterRecv
    \/ \E outcome \in StoreOutcomes : WriterStore(outcome)
    \/ JournalInvalidate(Some(TRUE), "ok")

SpecPurge == Init /\ [][NextPurge]_vars

\* The locks of the request engine and of the admin invalidate handler.
NextLocks ==
    \/ \E t \in Callers : TaskReceive(t)
    \/ \E t \in Callers : LockTake(t)
    \/ \E t \in Callers, next \in DOMAIN LockedCalls \cup {"try_acquire", "done"} :
          LockDrop(t, next)
    \/ \E t \in Callers : TaskTryAcquire(t)
    \/ \E t \in Callers, next \in DOMAIN LockedCalls : OriginReturns(t, next)
    \/ \E t \in Callers : TaskReturn(t)
    \/ FlushTake
    \/ FlushDrop

SpecLocks == InitLocks /\ [][NextLocks]_vars

\* The refresh sampler called by several tasks at the same time.
NextSampler ==
    \/ \E t \in Callers, key \in RefreshKeys : SamplerStart(t, key)
    \/ \E t \in Callers : SamplerLock(t)
    \/ \E t \in Callers : SamplerLoad(t)
    \/ \E t \in Callers : SamplerAdd(t)
    \/ \E t \in Callers : SamplerTest(t)
    \/ \E t \in Callers : SamplerReturn(t)

SpecSampler == InitSampler /\ [][NextSampler]_vars

\* The memory cache with the journal of the recency of its entries.
NextRecency ==
    \/ \E data \in RecencyBatches :
          \E samples \in SampleSeqs(Len(MEMORY_CACHE) + Len(data)) : RecencyLoad(data, samples)
    \/ \E key \in MemoryKeys : RecencyGet(key)
    \/ \E samples \in SampleSeqs(Len(MEMORY_CACHE)) : RecencyEvict(samples)

SpecRecency == InitRecency /\ [][NextRecency]_vars

\* The request engine and its writer task with origin answers of several
\* statuses and header lists; the clock stands still, so that an open circuit
\* stays open.
NextHeaders ==
    \/ \E r \in Reqs, i \in HeaderInputs : Receive(r, i[1], i[2])
    \/ \E r \in Reqs : CheckFailover(r)
    \/ \E r \in Reqs : Acquire(r)
    \/ \E r \in Reqs, resp \in HeaderResponses, ms \in ElapsedMs : ForwardOk(r, resp, ms)
    \/ \E r \in Reqs : ForwardErr(r)
    \/ \E r \in Reqs : Decide(r)
    \/ \E r \in Reqs : \E samples \in SampleSeqs(Len(MEMORY_CACHE) + 1) : StoreMem(r, samples)
    \/ \E r \in Reqs : Send(r)
    \/ \E r \in Reqs : Saturated(r)
    \/ \E r \in Reqs : Return(r)
    \/ \E r \in Reqs : TryCacheMemory(r)
    \/ \E r \in Reqs : TryCacheDurable(r)
    \/ \E r \in Reqs : \E samples \in SampleSeqs(Len(MEMORY_CACHE) + 1) : Promote(r, samples)
    \/ WriterRecv
    \/ \E outcome \in StoreOutcomes : WriterStore(outcome)

SpecHeaders == Init /\ [][NextHeaders]_vars

\* ------------------------------------------------------------- properties

\* Requests that have passed the failover check of line 143.
Checked == { r \in Reqs : req[r].pc \notin {"idle", "check_failover"} }

\* Requests whose response is determined (the handler is about to return).
Done == { r \in Reqs : req[r].pc = "done" }

\* The response proxy_handler builds from an origin response.
OriginResponse(r) ==
    [ status  |-> req[r].origin[1].status,
      body    |-> req[r].origin[1].body,
      headers |-> headers_vec(req[r].origin[1].headers) ]

C2_BypassWritesNothing ==
    \A r \in Reqs :
        req[r].bypass_cache => (req[r].hot_inserts = 0 /\ req[r].queue_sends = 0)

\* C3 as stated: a bypass request is never answered from the memory cache or
\* the persistent backend.
C3_BypassNeverFromCache ==
    \A r \in Reqs :
        req[r].bypass_cache => req[r].source \notin {"hot", "durable"}

\* C4: a request whose origin call returns a status outside 200..299 inserts
\* nothing into the memory cache, sends nothing to the writer channel, and
\* returns the origin response.
C4_NonSuccessNotStored ==
    \A r \in Reqs :
        (req[r].result = "ok" /\ ~is_success(req[r].origin[1].status)) =>
            /\ req[r].hot_inserts = 0
            /\ req[r].queue_sends = 0
            /\ req[r].pc \in {"decide", "done"}
            /\ r \in Done => (req[r].source = "origin" /\ req[r].response = Some(OriginResponse(r)))

\* Witness of C4: a slow non-2xx response returned while the circuit is open.
C4_Witness ==
    \E r \in Done :
        /\ req[r].result = "ok" /\ req[r].origin[1].status = 500
        /\ req[r].mark_time # None /\ should_failover(req[r].uri)
        /\ req[r].response = Some(OriginResponse(r))

SlowSuccess(r) ==
    /\ req[r].result = "ok"
    /\ ~req[r].bypass_cache
    /\ is_success(req[r].origin[1].status)
    /\ req[r].elapsed_ms > get_max_latency_for_path(req[r].uri)

C6_SlowSuccessOpensAndStores ==
    \A r \in Reqs :
        SlowSuccess(r) =>
            /\ req[r].mark_time # None
            /\ LATENCY_FAILS[req[r].uri] # None
            /\ LATENCY_FAILS[req[r].uri][1] >= req[r].mark_time[1]
            /\ now - req[r].mark_time[1] < FAILOVER_WINDOW_SECS => should_failover(req[r].uri)
            /\ req[r].pc \in {"decide", "store_mem", "send", "done"}
            /\ req[r].pc \in {"send", "done"} =>
                  /\ req[r].hot_inserts = 1
                  /\ req[r].ample =>
                        req[r].stored_under =
                            Some([key |-> req[r].key, body |-> req[r].origin[1].body,
                                  headers |-> headers_vec(req[r].origin[1].headers)])
            /\ r \in Done =>
                  /\ req[r].queue_sends = 1
                  /\ req[r].source = "origin"
                  /\ req[r].response = Some(OriginResponse(r))

\* Witness of C6: such a request is done, the circuit is open and the memory
\* cache holds its response.
C6_Witness ==
    \E r \in Done :
        /\ SlowSuccess(r) /\ req[r].ample
        /\ should_failover(req[r].uri)
        /\ cache_peek(MEMORY_CACHE, req[r].key) =
              Some([key |-> req[r].key, body |-> req[r].origin[1].body,
                    headers |-> headers_vec(req[r].origin[1].headers)])
        /\ req[r].response = Some(OriginResponse(r))

\* C7: should_failover(u) holds exactly when mark_latency_fail(u) was called
\* and less than 300 s have passed since its latest call.
C7_OpenExactlyWithinWindow ==
    \A u \in URIs :
        should_failover(u) <=>
            (last_mark[u] # None /\ now - last_mark[u][1] < FAILOVER_WINDOW_SECS)

\* Witness of C7: a URI marked twice is open although 300 s have passed since
\* its first mark, and another URI, marked once, has expired.
C7_Witness ==
    \E u, v \in URIs :
        /\ u # v
        /\ last_mark[u] # None /\ last_mark[u][1] > 0 /\ now >= FAILOVER_WINDOW_SECS
        /\ should_failover(u)
        /\ last_mark[v] # None /\ ~should_failover(v)

\* C8: at most max_concurrent_requests requests are inside forward_request,
\* and no more permits are held than exist.
C8_AdmissionBound ==
    /\ Cardinality({ r \in Reqs : req[r].pc = "forward" }) <= CONFIG.max_concurrent_requests
    /\ Cardinality({ r \in Reqs : req[r].permit }) <= CONFIG.max_concurrent_requests
    /\ SEMAPHORE >= 0

\* Witness of C8: every permit is in use by an origin call and another
\* request has been refused one.
C8_Witness ==
    /\ Cardinality({ r \in Reqs : req[r].pc = "forward" }) = CONFIG.max_concurrent_requests
    /\ \E r \in Reqs : req[r].pc = "saturated"

\* C9 as stated: no request holds a permit while it inserts into the memory
\* cache, sends to the writer channel, or reads the caches in try_cache.
C9_NoPermitDuringCacheIO ==
    \A r \in Reqs : ~req[r].io_with_permit

\* C10: a request that finds no permit never waits: it makes no origin
\* call, reads no persistent backend, and answers the memory cache entry of
\* its key or 502 "Too many concurrent requests and no cache available".
C10_SaturatedAnswersAtOnce ==
    \A r \in Reqs :
        /\ req[r].pc = "acquire" => ENABLED Acquire(r)
        /\ req[r].branch = "saturated" =>
              /\ req[r].pc \in {"saturated", "done"}
              /\ req[r].result = "none" /\ ~req[r].permit
              /\ req[r].durable_reads = 0 /\ req[r].hot_inserts = 0 /\ req[r].queue_sends = 0
              /\ r \in Done =>
                    IF req[r].hot_seen # None
                    THEN req[r].response =
                            Some(build_response(req[r].hot_seen[1].body, req[r].hot_seen[1].headers))
                    ELSE req[r].response = Some(TooManyResponse)

\* Witness of C10: a saturated request answered from the memory cache.
C10_Witness ==
    \E r \in Done :
        /\ req[r].branch = "saturated" /\ req[r].hot_seen # None
        /\ req[r].response # Some(TooManyResponse)
        /\ \E q \in Reqs : q # r /\ req[q].permit

\* C11 as stated: the send to the writer channel never stalls request
\* handling: a request that has decided to store and stands at the send can
\* always go on at once, even when the channel already holds its capacity.
C11_SendNeverWaits ==
    \A r \in Reqs : req[r].pc = "send" => ENABLED Send(r)

\* Requests that have entered try_cache: from the failover branch or after
\* their origin call failed.
InTryCache == { r \in Reqs : req[r].branch = "failover" \/ req[r].result = "err" }

\* C12: try_cache resolves in a fixed order: a memory cache hit is returned
\* without a read of the backend (and without an insert); otherwise a record
\* loaded from the backend is returned and inserted into the memory cache
\* under the key (held there right after the insert when memory is below the
\* threshold); otherwise the answer is 502 "Downstream error and no cache"
\* and nothing is inserted.
C12_TryCacheOrder ==
    \A r \in InTryCache :
        /\ req[r].pc \in {"try_durable", "promote"} => req[r].hot_seen = None
        /\ req[r].pc = "promote" => (req[r].fallback # None /\ req[r].hot_inserts = 0)
        /\ r \in Done =>
              /\ req[r].hot_reads = 1
              /\ req[r].queue_sends = 0
              /\ IF req[r].hot_seen # None
                 THEN /\ req[r].response =
                            Some(build_response(req[r].hot_seen[1].body, req[r].hot_seen[1].headers))
                      /\ req[r].durable_reads = 0 /\ req[r].hot_inserts = 0
                 ELSE IF req[r].fallback # None
                 THEN /\ req[r].durable_reads = 1 /\ req[r].durable_file
                      /\ req[r].response =
                            Some(build_response(req[r].fallback[1].body, req[r].fallback[1].headers))
                      /\ req[r].hot_inserts = 1
                      /\ req[r].ample =>
                            req[r].stored_under =
                                Some([key |-> req[r].key, body |-> req[r].fallback[1].body,
                                      headers |-> req[r].fallback[1].headers])
                 ELSE /\ req[r].durable_reads = 1
                      /\ req[r].response = Some(NoCacheResponse)
                      /\ req[r].hot_inserts = 0

\* Witness of C12: the origin call failed, the memory cache missed, the
\* backend held the record, and the memory cache now holds it.
C12_Witness ==
    \E r \in Done :
        /\ req[r].result = "err" /\ req[r].hot_seen = None /\ req[r].fallback # None
        /\ req[r].response # Some(NoCacheResponse) /\ req[r].ample
        /\ cache_peek(MEMORY_CACHE, req[r].key) =
              Some([key |-> req[r].key, body |-> req[r].fallback[1].body,
                    headers |-> req[r].fallback[1].headers])

\* C13 as stated: 502 "Downstream error and no cache" is answered only to a
\* request whose own origin call failed and for whose key neither tier holds
\* a copy.
C13_NoCacheOnlyAfterOriginFailure ==
    \A r \in Done :
        req[r].response = Some(NoCacheResponse) =>
            /\ req[r].result = "err"
            /\ req[r].hot_seen = None /\ req[r].fallback = None

\* C13, amended: 502 "Downstream error and no cache" is answered only by
\* try_cache, entered after the request's own origin call failed or from the
\* failover branch (open circuit, no origin call), when the memory cache
\* missed and the backend gave no loadable record.
C13_NoCacheOnlyFromTryCacheMiss ==
    \A r \in Done :
        req[r].response = Some(NoCacheResponse) =>
            /\ req[r].result = "err" \/ req[r].branch = "failover"
            /\ req[r].branch = "failover" =>
                  (req[r].result = "none" /\ req[r].failover_seen /\ ~req[r].force_refresh)
            /\ req[r].hot_reads = 1 /\ req[r].hot_seen = None
            /\ req[r].durable_reads = 1 /\ req[r].fallback = None
            /\ req[r].hot_inserts = 0

\* Witness of C13: a request in the failover branch, with no origin call,
\* answered 502 "Downstream error and no cache".
C13_Witness ==
    \E r \in Done :
        /\ req[r].response = Some(NoCacheResponse)
        /\ req[r].branch = "failover" /\ req[r].result = "none" /\ ~req[r].permit

\* Requests that have been received.
Arrived == { r \in Reqs : req[r].pc # "idle" }

\* The (lowercased name, value) pairs of a header list, in its order.
NormPairs(headers) ==
    [i \in 1..Len(headers) |-> << to_ascii_lowercase(headers[i][1]), headers[i][2] >>]

\* Number of occurrences of x in a sequence.
Count(seq, x) == Cardinality({ i \in 1..Len(seq) : seq[i] = x })

\* Two header lists hold the same pairs up to order and case of the names.
SamePairs(h1, h2) ==
    LET n1 == NormPairs(h1)
        n2 == NormPairs(h2)
    IN  /\ Len(n1) = Len(n2)
        /\ \A i \in 1..Len(n1) : Count(n1, n1[i]) = Count(n2, n1[i])

\* C14 as stated: two requests for the same URI whose header lists hold the
\* same (name, value) pairs up to the order of the pairs and the letter case
\* of the names, repeated names included, have equal cache keys.
C14_PermutedHeadersSameKey ==
    \A r, q \in Arrived :
        (req[r].uri = req[q].uri /\ SamePairs(req[r].headers, req[q].headers))
            => req[r].key = req[q].key

\* The list without its i-th element.
RemoveAt(seq, i) == SubSeq(seq, 1, i - 1) \o SubSeq(seq, i + 1, Len(seq))

\* h2 is h1 with one header of the ignored set removed, or with the value
\* of one such header changed.
IgnoredEdit(h1, h2) ==
    \E i \in 1..Len(h1) :
        /\ to_ascii_lowercase(h1[i][1]) \in ignored_headers_set
        /\ \/ h2 = RemoveAt(h1, i)
           \/ /\ Len(h2) = Len(h1)
              /\ to_ascii_lowercase(h2[i][1]) = to_ascii_lowercase(h1[i][1])
              /\ RemoveAt(h2, i) = RemoveAt(h1, i)

\* C15: adding, removing or changing a header of the ignored set (the
\* configured names lowercased, and x-bypass-cache, x-refresh-cache,
\* cache-control) leaves the cache key unchanged.
C15_IgnoredHeadersNoInfluence ==
    /\ {"x-bypass-cache", "x-refresh-cache", "cache-control"} \subseteq ignored_headers_set
    /\ \A h \in CONFIG.ignored_headers : to_ascii_lowercase(h) \in ignored_headers_set
    /\ \A r, q \in Arrived :
           (req[r].uri = req[q].uri /\ IgnoredEdit(req[r].headers, req[q].headers))
               => req[r].key = req[q].key

\* Witness of C15: a bypass request and the same request without the bypass
\* header have the same key.
C15_Witness ==
    \E r, q \in Arrived :
        /\ req[r].uri = req[q].uri
        /\ req[r].bypass_cache /\ ~req[q].bypass_cache
        /\ req[q].headers # << >>
        /\ IgnoredEdit(req[r].headers, req[q].headers)
        /\ req[r].key = req[q].key

\* The last entry of a batch under a key.
LastUnder(data, key) ==
    data[CHOOSE i \in 1..Len(data) :
            data[i].key = key /\ \A j \in (i + 1)..Len(data) : data[j].key # key]

\* C16: get_from_memory(fp) right after load_into_memory(batch) with the
\* sampled memory below the threshold returns the body and headers loaded
\* under fp, for every key of the batch (the last entry of the batch under
\* that key); get_from_memory of a key never inserted returns None.
C16_LoadThenGet ==
    call.op = "get" =>
        /\ (/\ call.after.op = "load" /\ call.after.ample
            /\ \E i \in 1..Len(call.after.data) : call.after.data[i].key = call.key)
              => /\ call.result # None
                 /\ call.result[1].body = LastUnder(call.after.data, call.key).body
                 /\ call.result[1].headers = LastUnder(call.after.data, call.key).headers
        /\ call.key \notin call.ever => call.result = None

\* Witness of C16: the first entry of a batch of two is read back right
\* after the load.
C16_Witness ==
    /\ call.op = "get" /\ call.after.op = "load" /\ call.after.ample
    /\ Len(call.after.data) = 2 /\ call.after.data[1].key = call.key
    /\ call.result = Some(call.after.data[1])

\* C17: maybe_evict_if_needed never stands still and ends after at most
\* one check per entry and one more; it removes at most all entries, least
\* recently used first; when it has returned, the last sampled percentage is
\* below memory_threshold or the cache is empty; and when the first sample
\* is below the threshold it removes nothing.
C17_EvictionEnds ==
    call.op = "evict" =>
        /\ call.iterations <= Len(call.cache0) + 1
        /\ call.removed <= Len(call.cache0)
        /\ call.removed >= call.iterations - 1
        /\ MEMORY_CACHE = SubSeq(call.cache0, call.removed + 1, Len(call.cache0))
        /\ call.pc = "loop" => \A sample \in MemSamples : ENABLED EvictIter(sample)
        /\ call.pc = "returned" =>
              /\ call.last_percent < CONFIG.memory_threshold \/ MEMORY_CACHE = << >>
              /\ usage_percent(call.samples[1]) < CONFIG.memory_threshold =>
                    (call.removed = 0 /\ call.iterations = 0)
              /\ MEMORY_CACHE = maybe_evict_if_needed(call.cache0, call.samples)

\* Witness of C17: a pass that emptied a cache of three entries under
\* lasting pressure has returned.
C17_Witness ==
    /\ call.op = "evict" /\ call.pc = "returned"
    /\ Len(call.cache0) = 3 /\ call.removed = 3 /\ MEMORY_CACHE = << >>
    /\ call.last_percent >= CONFIG.memory_threshold

\* C18: load_from_cache(fp) right after a store_in_cache(fp, body, headers)
\* that wrote its file returns exactly (body, headers), header order kept,
\* whatever the file held before (the latest store wins).
C18_StoreLoadRoundTrip ==
    (/\ call.op = "load_from_cache" /\ call.after.op = "store"
     /\ call.after.outcome = "ok" /\ call.after.key = call.key)
        => call.result = Some([body |-> call.after.body, headers |-> call.after.headers])

\* Witness of C18: a body that is not UTF-8 and two headers are read back
\* after they replaced another record of the same key.
C18_Witness ==
    /\ call.op = "load_from_cache" /\ call.after.op = "store"
    /\ call.after.outcome = "ok" /\ call.after.key = call.key
    /\ call.after.replaced # None /\ call.after.replaced # durable[call.key]
    /\ load_from_cache([k \in Keys |-> call.after.replaced], call.key) # None
    /\ call.after.body = << 255, 254, 253, 10 >> /\ Len(call.after.headers) = 2
    /\ call.result = Some([body |-> << 255, 254, 253, 10 >>, headers |-> call.after.headers])

\* C19: with refresh_percentage p in 1..100 and m = 100 \div p, the k-th call
\* of should_refresh for a key returns true exactly when k mod m = 0,
\* whatever the calls for other keys; with p = 0 every call returns false.
C19_RefreshEveryMth ==
    call.op = "should_refresh" =>
        LET k == call.calls[call.key[1]]
        IN  IF call.percentage = 0
            THEN call.result = FALSE
            ELSE call.result = (k % (100 \div call.percentage) = 0)

\* Witness of C19: with p = 33 the sixth call for a key returns true while
\* another key has been called once.
C19_Witness ==
    /\ call.op = "should_refresh" /\ call.percentage = 33
    /\ call.calls[call.key[1]] = 6 /\ call.result
    /\ \E k \in RefreshKeys : call.calls[k] = 1

\* C20: an invalidate call with backend=false or without backend empties the
\* memory cache, answers 200 and leaves every backend record as it was; a
\* request whose origin call fails after such a call removed its key, and
\* whose record the backend still holds in readable form, is answered with
\* that record.
C20_MemoryOnlyInvalidate ==
    /\ [][(admin' # admin /\ ~admin'[1].backend)
             => /\ MEMORY_CACHE' = << >>
                /\ durable' = durable
                /\ admin'[1].status = 200]_vars
    /\ [](\A r \in Done :
             (req[r].purged /\ req[r].hot_seen = None /\ req[r].fallback # None)
                 => /\ req[r].source = "durable"
                    /\ req[r].response =
                         Some(build_response(req[r].fallback[1].body, req[r].fallback[1].headers)))

\* Witness of C20: an invalidate call without backend removed a key from the
\* memory cache, the origin call of a later request for the key failed, and
\* the request was answered from the backend.
C20_Witness ==
    \E r \in Done :
        /\ admin # None /\ admin[1].param = None /\ admin[1].purged # {}
        /\ req[r].purged /\ req[r].result = "err"
        /\ req[r].hot_seen = None /\ req[r].source = "durable"
        /\ req[r].response # None /\ req[r].response[1].status = 200

\* C21: when the deletion an invalidate call with backend=true asked for
\* failed to list or to delete the records, the answer is not a success.
C21_PurgeFailurePropagates ==
    (admin # None /\ admin[1].purge # None /\ admin[1].purge[1] # "ok")
        => admin[1].status # 200

\* C22: load_from_cache returns None when the backend holds no file under
\* the key, or a file that is no gzip stream, or whose content is no JSON
\* blob, or whose body is no base64; the file is left as it was, a further
\* load of the key misses again, and only a store or a write changes a file.
C22_UndecodableIsMiss ==
    /\ [](call.op = "load_from_cache" =>
            /\ (call.file = None \/ call.file[1] \in CorruptFiles) => call.result = None
            /\ durable[call.key] = call.file
            /\ call.result = None => load_from_cache(durable, call.key) = None)
    /\ [][durable' # durable => call'.op \in {"store", "write"}]_vars

\* Witness of C22: a load misses on a file whose body is not base64, which
\* is still in place, while the other key holds a record that loads.
C22_Witness ==
    /\ call.op = "load_from_cache" /\ call.result = None
    /\ call.file = Some(NotBase64File) /\ durable[call.key] = Some(NotBase64File)
    /\ \E k \in StorageKeys : load_from_cache(durable, k) # None

\* The positions of the rules that compile and match the URI.
Matching(rules, uri) == { i \in 1..Len(rules) : rules[i].valid /\ uri \in rules[i].matches }

\* C23: get_max_latency_for_path returns the max_latency_ms of the first
\* rule, in declared order, whose pattern compiles and matches the URI, and
\* default_max_latency_ms when there is none.
C23_FirstMatchingRule ==
    call.op = "get_max_latency_for_path" =>
        LET hits == Matching(call.rules, call.uri)
        IN  IF hits = {} THEN call.result = CONFIG.default_max_latency_ms
            ELSE \E i \in hits : /\ \A j \in hits : i <= j
                                 /\ call.result = call.rules[i].max_latency_ms

\* Witness of C23: a rule that does not compile and would match is skipped,
\* and the rule after it, with another threshold, gives the answer.
C23_Witness ==
    /\ call.op = "get_max_latency_for_path" /\ Len(call.rules) = 2
    /\ ~call.rules[1].valid /\ call.uri \in call.rules[1].matches
    /\ call.rules[2].valid /\ call.uri \in call.rules[2].matches
    /\ call.rules[1].max_latency_ms # call.rules[2].max_latency_ms
    /\ call.result = call.rules[2].max_latency_ms

\* Requests whose origin call returned a response and whose store decision is taken.
Decided == { r \in Reqs : req[r].result = "ok" /\ req[r].pc \in {"store_mem", "send", "done"} }

\* C24: after an origin call that returned a response, the request stores
\* it (one insert into the memory cache, then one send to the writer) exactly
\* when it is not bypass, the status is 2xx, and its own latency exceeded the
\* threshold or the circuit of the URI was not open at line 208; a request
\* that does not store inserts and sends nothing.
C24_StoresExactlyWhen ==
    \A r \in Decided :
        LET stores == /\ ~req[r].bypass_cache
                      /\ is_success(req[r].origin[1].status)
                      /\ \/ req[r].elapsed_ms > get_max_latency_for_path(req[r].uri)
                         \/ ~req[r].fallback_active
        IN  /\ req[r].pc \in {"store_mem", "send"} => stores
            /\ req[r].pc = "send" => req[r].hot_inserts = 1 /\ req[r].queue_sends = 0
            /\ req[r].pc = "done" =>
                  IF stores THEN req[r].hot_inserts = 1 /\ req[r].queue_sends = 1
                  ELSE req[r].hot_inserts = 0 /\ req[r].queue_sends = 0

\* Witness of C24: a refresh-sampled request, not bypass, got a 2xx answer
\* within the threshold while the circuit was open, and stored nothing.
C24_Witness ==
    \E r \in Done :
        /\ req[r].result = "ok" /\ req[r].force_refresh /\ ~req[r].bypass_cache
        /\ is_success(req[r].origin[1].status)
        /\ req[r].elapsed_ms <= get_max_latency_for_path(req[r].uri)
        /\ req[r].failover_seen /\ req[r].fallback_active
        /\ req[r].hot_inserts = 0 /\ req[r].queue_sends = 0

\* C25: a request has called mark_latency_fail exactly when its origin call
\* returned a response, of any status and bypass or not, after strictly more
\* than the threshold of its URI; a step that marks a URI is such a return,
\* so an origin call that fails marks nothing.
C25_MarkExactlyOnSlowResponse ==
    /\ [](\A r \in Reqs :
             req[r].mark_time # None <=>
                 (req[r].result = "ok" /\ req[r].elapsed_ms > get_max_latency_for_path(req[r].uri)))
    /\ [][(LATENCY_FAILS' # LATENCY_FAILS \/ last_mark' # last_mark) =>
             \E r \in Reqs :
                 /\ req[r].pc = "forward" /\ req'[r].result = "ok"
                 /\ req'[r].elapsed_ms > get_max_latency_for_path(req[r].uri)
                 /\ LATENCY_FAILS'[req[r].uri] = Some(now)]_vars

\* Witness of C25: a bypass request whose origin answered 500 one
\* millisecond above the threshold has marked its URI, whose circuit was
\* closed when the request arrived and is open now.
C25_Witness ==
    \E r \in Reqs :
        /\ req[r].bypass_cache /\ req[r].result = "ok"
        /\ ~is_success(req[r].origin[1].status)
        /\ req[r].elapsed_ms = get_max_latency_for_path(req[r].uri) + 1
        /\ ~req[r].failover_seen
        /\ req[r].mark_time # None /\ should_failover(req[r].uri)

\* The record a storing request sends to the writer.
SentRecord(r) ==
    [key |-> req[r].key, body |-> req[r].origin[1].body,
     headers |-> headers_vec(req[r].origin[1].headers)]

\* C26: a request that has sent its record to the writer has inserted it
\* into the memory cache before; a record enters the channel only by the send
\* of a request that has made its insert; a request dropped between the two
\* has inserted and not sent, and one dropped before the insert has done
\* neither.
C26_InsertBeforeSend ==
    /\ [](\A r \in Reqs :
             /\ req[r].queue_sends <= req[r].hot_inserts
             /\ req[r].cancelled = "send" => req[r].hot_inserts = 1 /\ req[r].queue_sends = 0
             /\ req[r].cancelled \in {"forward", "decide", "store_mem"} =>
                   req[r].hot_inserts = 0 /\ req[r].queue_sends = 0)
    /\ [][Len(CACHE_WRITER') > Len(CACHE_WRITER) =>
             \E r \in Reqs :
                 /\ req[r].pc = "send" /\ req[r].hot_inserts = 1
                 /\ req'[r].queue_sends = 1
                 /\ CACHE_WRITER' = Append(CACHE_WRITER, SentRecord(r))]_vars

\* Witness of C26: a request was dropped between its insert and its send:
\* the memory cache holds its entry, and neither the channel, the writer nor
\* the backend holds a record of its key.
C26_Witness ==
    \E r \in Done :
        /\ req[r].cancelled = "send"
        /\ cache_peek(MEMORY_CACHE, req[r].key) = Some(SentRecord(r))
        /\ CACHE_WRITER = << >> /\ writer = None
        /\ durable[req[r].key] = None

\* The records the writer holds or the channel holds, oldest first.
Pending == (IF writer = None THEN << >> ELSE << writer[1] >>) \o CACHE_WRITER

\* The records passed to store_in_cache, in order.
AppliedRecords == [i \in 1..Len(call.applied) |-> call.applied[i].rec]

\* The positions of the journal of applied records that are about the key.
AppliedFor(key) == { i \in 1..Len(call.applied) : call.applied[i].rec.key = key }

\* The backend after the stores of a journal, applied in order to an empty backend.
RECURSIVE Replay(_)
Replay(applied) ==
    IF applied = << >> THEN [k \in Keys |-> None]
    ELSE store_in_cache(Replay(SubSeq(applied, 1, Len(applied) - 1)),
                        applied[Len(applied)].rec, applied[Len(applied)].outcome)

\* C27: the writer holds one record at a time and passes the records to
\* store_in_cache in the order the channel accepted them; for each key whose
\* latest store wrote its file, the backend holds the record of the latest
\* send applied for the key; the backend is what the stores give when made
\* one after the other in that order.
C27_WriterKeepsSendOrder ==
    /\ call.accepted = AppliedRecords \o Pending
    /\ durable = Replay(call.applied)
    /\ \A k \in StorageKeys :
          AppliedFor(k) # {} =>
              LET last == call.applied[CHOOSE i \in AppliedFor(k) : \A j \in AppliedFor(k) : j <= i]
              IN  last.outcome = "ok" =>
                      load_from_cache(durable, k) =
                          Some([body |-> last.rec.body, headers |-> last.rec.headers])

\* Witness of C27: two different records of one key were accepted, with a
\* record of another key between them, all were stored, and the backend
\* holds the later one.
C27_Witness ==
    /\ Len(call.accepted) = 3 /\ Len(call.applied) = 3
    /\ call.accepted[1].key = call.accepted[3].key
    /\ call.accepted[1].key # call.accepted[2].key
    /\ call.accepted[1].body # call.accepted[3].body
    /\ \A i \in 1..3 : call.applied[i].outcome = "ok"
    /\ load_from_cache(durable, call.accepted[3].key) =
          Some([body |-> call.accepted[3].body, headers |-> call.accepted[3].headers])

\* C28: whatever happened to the stores before it, every record the channel
\* accepted is in the end passed to store_in_cache, and no record is passed
\* more than once: the n-th record passed is always the n-th record accepted.
C28_EveryRecordStoredOnce ==
    /\ [](/\ Len(call.applied) <= Len(call.accepted)
          /\ \A i \in 1..Len(call.applied) : call.applied[i].rec = call.accepted[i])
    /\ \A n \in 1..MaxSends :
          (Len(call.accepted) >= n) ~> (Len(call.applied) >= n)

\* Witness of C28: after a store that failed and one that broke off
\* part-way, a third record was passed to store_in_cache and stored.
C28_Witness ==
    /\ Len(call.accepted) = 3 /\ Len(call.applied) = 3
    /\ call.applied[1].outcome = "failed"
    /\ call.applied[2].outcome = "partial"
    /\ call.applied[3].outcome = "ok"
    /\ call.applied[3].rec.key = call.applied[1].rec.key
    /\ load_from_cache(durable, call.applied[3].rec.key) # None

\* C29: a round of the eviction task runs maybe_evict_if_needed exactly when
\* the percentage it sampled is strictly greater than the one the round
\* before sampled (0 before the first round): then the cache is what the
\* pass leaves, and the pass removes an entry when its own samples are at or
\* above the threshold and the cache is not empty; otherwise the cache is
\* untouched, at or above the threshold too. Every round remembers the
\* percentage it sampled.
C29_MonitorRunsOnIncrease ==
    call.op = "tick" =>
        LET current == usage_percent(call.samples[1])
        IN  /\ last_usage_percent = current
            /\ current <= call.previous => MEMORY_CACHE = call.before
            /\ current > call.previous =>
                  /\ MEMORY_CACHE = maybe_evict_if_needed(call.before, Tail(call.samples))
                  /\ (/\ usage_percent(call.samples[2]) >= CONFIG.memory_threshold
                      /\ usage_percent(call.samples[3]) >= CONFIG.memory_threshold
                      /\ call.before # << >>) => Len(MEMORY_CACHE) < Len(call.before)

\* Witness of C29: a round sampled the same percentage as the round before,
\* above the threshold, its pass would have removed an entry, and the cache
\* still holds what it held.
C29_Witness ==
    /\ call.op = "tick"
    /\ usage_percent(call.samples[1]) = call.previous
    /\ call.previous >= CONFIG.memory_threshold
    /\ call.before # << >> /\ MEMORY_CACHE = call.before
    /\ Len(maybe_evict_if_needed(call.before, Tail(call.samples))) < Len(call.before)

\* The meta object gives headers: it is there, it is fetched and read, it is
\* a gzip stream and its content is a JSON array of pairs.
MetaGood ==
    /\ call.bucket.meta # None /\ call.meta_fetch = "ok"
    /\ GzDecoder(call.bucket.meta[1]) # None
    /\ headers_from_slice(GzDecoder(call.bucket.meta[1])[1]) # None

\* The body object is there and is a gzip stream.
BodyStored == call.bucket.data # None /\ GzDecoder(call.bucket.data[1]) # None

\* What a load that succeeds returns: the decompressed body, with the
\* headers of a good meta object and with no headers otherwise.
S3LoadReturns ==
    call.result # None =>
        /\ call.result[1].body = bytes_of(GzDecoder(call.bucket.data[1])[1])
        /\ call.result[1].headers =
              IF MetaGood THEN headers_from_slice(GzDecoder(call.bucket.meta[1])[1])[1]
              ELSE << >>

\* C30 as stated: the S3 load fails only when the body object is missing
\* or cannot be decompressed, and otherwise returns the stored body, with no
\* headers when the meta object is missing, unreadable, no gzip or no JSON.
C30_LoadFailsOnlyOnBody ==
    call.op = "s3_load" =>
        /\ call.result = None <=> ~BodyStored
        /\ S3LoadReturns

\* C30 as it holds: the S3 load fails exactly when head_bucket fails, when
\* the body object cannot be fetched or read, or when it cannot be
\* decompressed; otherwise it returns the stored body, with no headers when
\* the meta object is missing, unreadable, no gzip or no JSON; it changes no
\* object.
C30_LoadFailsOnBodyOrTransport ==
    call.op = "s3_load" =>
        /\ call.result = None <=> (~call.head_ok \/ call.body_fetch # "ok" \/ ~BodyStored)
        /\ S3LoadReturns
        /\ call.before = Some(call.bucket)

\* Witness of C30: a load returned the body that was stored, with no
\* headers, from a bucket whose meta object is a gzip stream of something
\* that is no JSON array.
C30_Witness ==
    /\ call.op = "s3_load" /\ call.result # None
    /\ call.bucket.meta = Some(S3NotJson)
    /\ call.bucket.data = Some(s3_compress(<< 72, 105 >>))
    /\ call.result[1].body = << 72, 105 >>
    /\ call.result[1].headers = << >>

\* A header list holds a content-length, in any letter case.
has_content_length(headers) ==
    \E i \in 1..Len(headers) : to_ascii_lowercase(headers[i][1]) = "content-length"

\* A header list without its content-length pairs, the rest in order.
WithoutContentLength(headers) ==
    SelectSeq(headers, LAMBDA kv : to_ascii_lowercase(kv[1]) # "content-length")

\* C31: whatever headers the origin sent, no entry of the memory cache, no
\* record in the channel or held by the writer, and no response built from an
\* origin response holds a content-length; the response keeps the status and
\* the body of the origin and its other headers in order, and the record a
\* request inserts and sends holds the same headers.
C31_NoContentLengthStored ==
    /\ \A i \in 1..Len(MEMORY_CACHE) : ~has_content_length(MEMORY_CACHE[i].headers)
    /\ \A i \in 1..Len(CACHE_WRITER) : ~has_content_length(CACHE_WRITER[i].headers)
    /\ writer # None => ~has_content_length(writer[1].headers)
    /\ \A r \in Reqs :
          /\ req[r].source = "origin" =>
                req[r].response =
                    Some([status  |-> req[r].origin[1].status,
                          body    |-> req[r].origin[1].body,
                          headers |-> WithoutContentLength(req[r].origin[1].headers)])
          /\ (req[r].result = "ok" /\ req[r].stored_under # None) =>
                req[r].stored_under[1].headers = WithoutContentLength(req[r].origin[1].headers)

\* Witness of C31: the origin sent two content-length values; the request
\* stored and sent its record, the writer holds it, and the entry, the record
\* and the response hold the one other header of the origin and nothing else.
C31_Witness ==
    \E r \in Done :
        /\ req[r].result = "ok" /\ req[r].hot_inserts = 1 /\ req[r].queue_sends = 1
        /\ Len(SelectSeq(req[r].origin[1].headers, LAMBDA kv : kv[1] = "content-length")) = 2
        /\ req[r].response[1].headers = << <<"x-test", "true">> >>
        /\ cache_peek(MEMORY_CACHE, req[r].key) # None
        /\ cache_peek(MEMORY_CACHE, req[r].key)[1].headers = << <<"x-test", "true">> >>
        /\ writer # None /\ writer[1].headers = << <<"x-test", "true">> >>

\* C32: the memory cache holds its entries in the order of their latest
\* insert or get_from_memory hit, oldest first, and every entry an eviction
\* pass removed was last inserted or read before every entry that remains.
C32_EvictsLeastRecentlyUsed ==
    /\ \A i, j \in 1..Len(MEMORY_CACHE) :
          i < j => call.touched[MEMORY_CACHE[i].key] < call.touched[MEMORY_CACHE[j].key]
    /\ \A b \in call.removed, a \in cache_keys(MEMORY_CACHE) :
          call.touched[b] < call.touched[a]

\* Witness of C32: an eviction pass removed an entry and left another that
\* had been inserted before the removed one and read after it.
C32_Witness ==
    /\ call.op = "evict"
    /\ \E b \in call.removed, a \in cache_keys(MEMORY_CACHE) :
          /\ call.inserted[a] < call.inserted[b]
          /\ call.touched[a] > call.touched[b]

\* The tasks that called should_refresh for the key.
CalledFor(key) == { t \in Callers : call.callers[t].key = Some(key) }

\* Every task has made its call and the call has returned.
AllReturned ==
    \A t \in Callers : call.callers[t].pc = "returned"

\* What N concurrent calls for a key leave behind when every call counts:
\* the counter is c + N, the calls saw the values c+1..c+N, one each, and
\* floor((c+N)/m) - floor(c/m) of them returned true.
CountsEveryCall(key) ==
    LET c == call.start[key]
        N == Cardinality(CalledFor(key))
        m == refresh_modulus(call.percentage)
    IN  /\ REFRESH_COUNTERS[key] = c + N
        /\ { call.callers[t].seen : t \in CalledFor(key) } = (c + 1)..(c + N)
        /\ Cardinality({ t \in CalledFor(key) : call.callers[t].result })
              = ((c + N) \div m) - (c \div m)

\* C33 as stated: whatever the percentage, N concurrent calls for a key
\* starting from counter value c leave the counter at c + N, see the values
\* c+1..c+N, one each, and floor((c+N)/m) - floor(c/m) of them return true.
C33_ConcurrentCallsCount ==
    AllReturned => \A key \in RefreshKeys : CountsEveryCall(key)

\* C33 as it holds: so it is with a percentage of 1 or more, and a call
\* that has incremented the counter holds a value no other call holds; with
\* percentage 0 no call touches the counter and every call returns false.
C33_ConcurrentCallsCountWhenSampling ==
    /\ \A t, u \in Callers :
          (/\ t # u /\ call.callers[t].key = call.callers[u].key
           /\ call.callers[t].pc \in {"test", "unlock", "returned"}
           /\ call.callers[u].pc \in {"test", "unlock", "returned"}
           /\ call.percentage # 0) => call.callers[t].seen # call.callers[u].seen
    /\ AllReturned =>
          \A key \in RefreshKeys :
              IF call.percentage = 0
              THEN /\ REFRESH_COUNTERS[key] = call.start[key]
                   /\ \A t \in CalledFor(key) : ~call.callers[t].result
              ELSE CountsEveryCall(key)

\* Witness of C33: with modulus 2 every task called for one key from counter
\* value 1, all but one of the calls began while another call held the
\* mutex, and all have returned: the counter has grown by the number of
\* tasks and exactly two calls returned true.
C33_Witness ==
    /\ AllReturned /\ call.percentage = 50
    /\ Cardinality(call.waited) = NumCallers - 1
    /\ \E key \in RefreshKeys :
          /\ CalledFor(key) = Callers /\ call.start[key] = 1
          /\ REFRESH_COUNTERS[key] = 1 + NumCallers
          /\ Cardinality({ t \in Callers : call.callers[t].result }) = 2

\* The parties that keep a party from taking a lock in a mode.
Blockers(party, lock, mode) ==
    { u \in Parties \ {party} :
        \E h \in call.held[u] : h[1] = lock /\ ~(mode = "read" /\ h[2] = "read") }

\* C34: a task inside its origin call holds no lock of the memory cache, of
\* the latency map or of the refresh counters; a task that waits for the lock
\* of a cache lookup, a breach check or any other call, and the admin
\* handler that waits for the memory cache, is kept waiting by no task that
\* is inside its origin call.
C34_NoLockAcrossOriginCall ==
    /\ \A t \in InOrigin : call.held[t] = {}
    /\ \A t \in Callers :
          (call.tasks[t].pc \in DOMAIN LockedCalls /\ ~call.tasks[t].inside) =>
              Blockers(t, LockedCalls[call.tasks[t].pc].lock,
                          LockedCalls[call.tasks[t].pc].mode) \cap InOrigin = {}
    /\ Blockers(0, "memory", "write") \cap InOrigin = {}

\* Witness of C34: while one task is inside its origin call, another is
\* inside its cache lookup and a third inside its breach check, both having
\* taken their locks while an origin call was outstanding, as did the admin
\* handler earlier.
C34_Witness ==
    \E t, u, v \in Callers :
        /\ call.tasks[t].pc = "forward"
        /\ call.tasks[u].pc = "get_from_memory" /\ call.tasks[u].inside
        /\ call.tasks[v].pc = "should_failover" /\ call.tasks[v].inside
        /\ {0, u, v} \subseteq call.passed

\* C35: when two requests for one key have each inserted and sent their
\* response and the writer has stored every record sent (nothing is left in
\* the channel or with the writer), the record the backend holds for the key
\* has the body and the headers of the entry of the memory cache.
C35_TiersAgreeAfterDrain ==
    \A r, q \in Done :
        (/\ r # q /\ req[r].key = req[q].key
         /\ req[r].hot_inserts = 1 /\ req[r].queue_sends = 1
         /\ req[q].hot_inserts = 1 /\ req[q].queue_sends = 1
         /\ CACHE_WRITER = << >> /\ writer = None) =>
            /\ cache_peek(MEMORY_CACHE, req[r].key) # None
            /\ load_from_cache(durable, req[r].key) =
                  Some([body    |-> cache_peek(MEMORY_CACHE, req[r].key)[1].body,
                        headers |-> cache_peek(MEMORY_CACHE, req[r].key)[1].headers])

\* The requests that hold a permit.
Holders == { r \in Reqs : req[r].permit }

\* C36: the permits available and the permits held by requests add up to
\* max_concurrent_requests, a permit is held only by a request between its
\* try_acquire and its return, and with no request in flight every permit is
\* available; a request that returns having held a permit gives it back,
\* whether it stored the response of the origin, answered it without
\* storing, answered from the cache after an origin error, answered 502, or
\* was dropped on the way.
C36_PermitsConserved ==
    /\ [](/\ SEMAPHORE + Cardinality(Holders) = CONFIG.max_concurrent_requests
          /\ \A r \in Holders : req[r].pc \notin {"idle", "check_failover", "acquire", "saturated"}
          /\ (\A r \in Reqs : req[r].pc = "idle") => SEMAPHORE = CONFIG.max_concurrent_requests)
    /\ [][\A r \in Reqs :
             (req[r].pc = "done" /\ req[r].permit /\ req'[r].pc = "idle") =>
                 SEMAPHORE' = SEMAPHORE + 1]_vars

\* Witness of C36: a request stored the response of the origin and
\* returned, and the permit it gave back is now held by a later request,
\* whose origin call failed and which is about to return the 502 of try_cache.
C36_Witness ==
    \E r \in Done :
        /\ req[r].permit /\ req[r].result = "err"
        /\ req[r].response = Some(NoCacheResponse)
        /\ SEMAPHORE = CONFIG.max_concurrent_requests - 1
        /\ \A q \in Reqs \ {r} : req[q].pc = "idle"
        /\ MEMORY_CACHE # << >>
        /\ durable[MEMORY_CACHE[1].key] # None

\* C37: a load_into_memory call during which every sampled usage is at or
\* above the threshold leaves the memory cache empty, whatever it held and
\* whatever the call inserted, and a get_from_memory right after it returns
\* None for every key.
C37_LoadUnderPressureEmpties ==
    /\ (call.op = "load" /\ call.pressed) => MEMORY_CACHE = << >>
    /\ (call.op = "get" /\ call.pressed) => call.result = None

\* Witness of C37: a load of two entries into a cache that held another
\* entry sampled usage at or above the threshold throughout, and the read of
\* one of the two keys right after it returned None.
C37_Witness ==
    /\ call.op = "get" /\ call.pressed
    /\ Cardinality(call.loaded) = 2 /\ call.held = 1
    /\ call.key[1] \in call.loaded
    /\ call.result = None
    /\ MEMORY_CACHE = << >>

\* C38: after an invalidate call with backend=true whose deletion
\* succeeded, made when every request received had returned, and as long as
\* no further request arrives, neither the memory cache nor the backend
\* holds a record: the records that were in the channel or with the writer
\* when the call was made are not written afterwards.
C38_PurgeLeavesNothingBehind ==
    (/\ call.op = "invalidate" /\ call.quiet /\ received = call.received
     /\ admin # None /\ admin[1].backend /\ admin[1].purge = Some("ok")) =>
        /\ MEMORY_CACHE = << >>
        /\ \A k \in Keys : durable[k] = None

\* The entry or record a request was answered from.
ServedFrom(r) == IF req[r].source = "hot" THEN req[r].hot_seen[1] ELSE req[r].fallback[1]

\* C39: a response served from the memory cache or from the backend, in the
\* failover branch, after an origin error or without a permit, has status
\* 200, the stored body and the stored headers, followed by a content-type
\* of application/octet-stream exactly when the stored headers hold no
\* content-type; the stored record holds no status.
C39_CachedResponsesAre200 ==
    \A r \in Reqs :
        req[r].source \in {"hot", "durable"} =>
            LET stored == ServedFrom(r)
                resp   == req[r].response[1]
            IN  /\ DOMAIN stored \subseteq {"key", "body", "headers"}
                /\ resp.status = 200
                /\ resp.body = stored.body
                /\ resp.headers =
                      IF \E i \in 1..Len(stored.headers) :
                             to_ascii_lowercase(stored.headers[i][1]) = "content-type"
                      THEN stored.headers
                      ELSE stored.headers \o << <<"Content-Type", "application/octet-stream">> >>

\* Witness of C39: a request in the failover branch was answered from the
\* backend with the record of an origin response of status 201 that had no
\* content-type: status 200, the body of that response, its headers without
\* the content-length, and the default content-type.
C39_Witness ==
    \E r \in Done :
        /\ req[r].branch = "failover" /\ req[r].source = "durable"
        /\ req[r].response =
              Some([status  |-> 200, body |-> << 109, 97, 100, 101 >>,
                    headers |-> << <<"x-test", "true">>,
                                   <<"Content-Type", "application/octet-stream">> >>])


\* C40: under every refresh_percentage the loader accepts (0..=255, a u8
\* that is not range-checked), should_refresh computes a modulus
\* 100 \div max(p, 1) of at least 1 and returns a boolean: no call ends in a
\* division-by-zero failure.
C40_ModulusAtLeastOne ==
    call.op = "should_refresh" =>
        /\ refresh_modulus(call.percentage) >= 1
        /\ call.outcome = "returned"
        /\ call.result \in BOOLEAN

====
